---- MODULE Spec2Model ----
(***************************************************************************)
(* Model of the contract analyzer of AlgoMint                              *)
(* (backend/app/services/contract_analyzer.py): analyze_contract and       *)
(* analyze_multi_contract, alone and in concurrent calls, and of           *)
(* AIService._compute_state_schema (backend/app/services/ai_service.py).   *)
(*                                                                         *)
(* Source text is a sequence of one-character strings, so that the         *)
(* analyzer's regular expressions and substring tests are computed over    *)
(* characters as the code computes them.  A parsed source is a syntax tree *)
(* (the value ast.parse returns); Unparse models ast.unparse.              *)
(***************************************************************************)
EXTENDS Integers, Sequences, FiniteSets, TLC

\* ------------------------------------------------------------------ text

\* lit occurs in s at position i
IsAt(s, i, lit) ==
    /\ i >= 1
    /\ i + Len(lit) - 1 <= Len(s)
    /\ SubSeq(s, i, i + Len(lit) - 1) = lit

\* Python: lit in s
Contains(s, lit) == \E i \in 1..(Len(s) - Len(lit) + 1) : IsAt(s, i, lit)

UpperChars == <<"A","B","C","D","E","F","G","H","I","J","K","L","M",
                "N","O","P","Q","R","S","T","U","V","W","X","Y","Z">>
LowerChars == <<"a","b","c","d","e","f","g","h","i","j","k","l","m",
                "n","o","p","q","r","s","t","u","v","w","x","y","z">>
DigitChars == {"0","1","2","3","4","5","6","7","8","9"}

IsUpper(c) == \E k \in 1..Len(UpperChars) : UpperChars[k] = c
IsLowerOrDigit(c) == (\E k \in 1..Len(LowerChars) : LowerChars[k] = c) \/ c \in DigitChars
\* regex \w
IsWord(c) == IsUpper(c) \/ IsLowerOrDigit(c) \/ c = "_"
\* regex \s
WS == {" ", "\n", "\t"}

LowerChar(c) ==
    IF IsUpper(c)
    THEN LowerChars[CHOOSE k \in 1..Len(UpperChars) : UpperChars[k] = c]
    ELSE c

\* str.lower()
Lower(s) == [i \in 1..Len(s) |-> LowerChar(s[i])]

\* the character U+FF54, FULLWIDTH LATIN SMALL LETTER T: a letter that may be
\* written in an identifier and that str.lower() leaves as it is
FullwidthT == "U+FF54"

\* the identifier the parser stores for one written as s: ast.parse normalises
\* identifiers to NFKC, which maps U+FF54 to t and keeps ASCII characters
NFKC(s) == [k \in 1..Len(s) |-> IF s[k] = FullwidthT THEN "t" ELSE s[k]]

\* the concatenation of a sequence of texts
Concat(qs) ==
    LET F[i \in 0..Len(qs)] == IF i = 0 THEN <<>> ELSE F[i - 1] \o qs[i]
    IN  F[Len(qs)]

\* sep.join(qs)
Join(qs, sep) ==
    LET F[i \in 0..Len(qs)] ==
            IF i = 0 THEN <<>>
            ELSE IF i = 1 THEN qs[1]
            ELSE F[i - 1] \o sep \o qs[i]
    IN  F[Len(qs)]

\* q without the later duplicates of its elements ("if x not in found: found.append(x)")
Dedup(q) ==
    LET F[i \in 0..Len(q)] ==
            IF i = 0 THEN <<>>
            ELSE IF \E j \in 1..(i - 1) : q[j] = q[i] THEN F[i - 1]
            ELSE Append(F[i - 1], q[i])
    IN  F[Len(q)]

Range(q) == {q[i] : i \in 1..Len(q)}

\* the permutations of a finite set, as sequences: the orders in which a Python
\* set of strings can be iterated (string hashing is randomised per process)
Orders(S) ==
    {q \in [1..Cardinality(S) -> S] : \A i, j \in 1..Cardinality(S) : q[i] = q[j] => i = j}

\* text.rsplit(".", 1)[-1]
AfterLastDot(s) ==
    LET dots == {i \in 1..Len(s) : s[i] = "."}
    IN  IF dots = {} THEN s
        ELSE SubSeq(s, (CHOOSE i \in dots : \A j \in dots : j <= i) + 1, Len(s))

\* ------------------------------------------------------------------ text constants

t_self == <<"s","e","l","f",".">>
t_dotvalue == <<".","v","a","l","u","e">>
t_dotset == <<".","s","e","t","(">>
t_dotget == <<".","g","e","t","(">>
t_return == <<"r","e","t","u","r","n">>
t_assert == <<"a","s","s","e","r","t">>
t_arc4 == <<"a","r","c","4",".">>
t_op_err == <<"o","p",".","e","r","r">>
t_op_exit == <<"o","p",".","e","x","i","t">>
t_emit == <<"e","m","i","t">>
t_init == <<"_","_","i","n","i","t","_","_">>

\* ------------------------------------------------------------------ syntax trees

(***************************************************************************)
(* An expression node is [e, s, args]:                                     *)
(*   Num, Name   s is the literal or identifier                            *)
(*   Attr        self.s           Attribute(Name self, s)                  *)
(*   Value       self.s.value                                              *)
(*   Sub         self.s[args[1]]  Subscript                                *)
(*   Call        s(args..., k=v...)  s is the unparsed callee (dotted name);*)
(*               kw is the sequence of keyword arguments <<k, v>>          *)
(*   Bin         args[1] s args[2]   BinOp or Compare                      *)
(* A simple statement is [k, t, op, v]: Assign t = v, AugAssign t op= v,   *)
(* Assert v, Expr v, Return v.                                             *)
(***************************************************************************)
Nil == [e |-> "Nil", s |-> <<>>, args |-> <<>>, kw |-> <<>>]
Num(n) == [e |-> "Num", s |-> n, args |-> <<>>, kw |-> <<>>]
Name(x) == [e |-> "Name", s |-> x, args |-> <<>>, kw |-> <<>>]
Attr(v) == [e |-> "Attr", s |-> v, args |-> <<>>, kw |-> <<>>]
Value(v) == [e |-> "Value", s |-> v, args |-> <<>>, kw |-> <<>>]
Sub(v, key) == [e |-> "Sub", s |-> v, args |-> <<key>>, kw |-> <<>>]
Call(f, as) == [e |-> "Call", s |-> f, args |-> as, kw |-> <<>>]
\* a call with keyword arguments kws, a sequence of <<name, value>>
CallKw(f, as, kws) == [e |-> "Call", s |-> f, args |-> as, kw |-> kws]
Bin(l, o, r) == [e |-> "Bin", s |-> o, args |-> <<l, r>>, kw |-> <<>>]

Assign(t, v) == [k |-> "Assign", t |-> t, op |-> <<>>, v |-> v]
AugAssign(t, o, v) == [k |-> "AugAssign", t |-> t, op |-> o, v |-> v]
AssertStmt(v) == [k |-> "Assert", t |-> Nil, op |-> <<>>, v |-> v]
ExprStmt(v) == [k |-> "Expr", t |-> Nil, op |-> <<>>, v |-> v]
Return(v) == [k |-> "Return", t |-> Nil, op |-> <<>>, v |-> v]

RECURSIVE UnparseExpr(_)
UnparseExpr(x) ==
    CASE x.e \in {"Num", "Name"} -> x.s
      [] x.e = "Attr" -> t_self \o x.s
      [] x.e = "Value" -> t_self \o x.s \o t_dotvalue
      [] x.e = "Sub" -> t_self \o x.s \o <<"[">> \o UnparseExpr(x.args[1]) \o <<"]">>
      [] x.e = "Call" ->
            x.s \o <<"(">>
                \o Join([i \in 1..Len(x.args) |-> UnparseExpr(x.args[i])]
                        \o [i \in 1..Len(x.kw) |->
                               x.kw[i][1] \o <<"=">> \o UnparseExpr(x.kw[i][2])],
                        <<",", " ">>)
                \o <<")">>
      [] x.e = "Bin" ->
            UnparseExpr(x.args[1]) \o <<" ">> \o x.s \o <<" ">> \o UnparseExpr(x.args[2])
      [] OTHER -> <<"?">>

\* ast.unparse of one statement
UnparseStmt(st) ==
    CASE st.k = "Assign" -> UnparseExpr(st.t) \o <<" ", "=", " ">> \o UnparseExpr(st.v)
      [] st.k = "AugAssign" ->
            UnparseExpr(st.t) \o <<" ">> \o st.op \o <<"=", " ">> \o UnparseExpr(st.v)
      [] st.k = "Assert" -> t_assert \o <<" ">> \o UnparseExpr(st.v)
      [] st.k = "Return" -> t_return \o <<" ">> \o UnparseExpr(st.v)
      [] OTHER -> UnparseExpr(st.v)

_unparse_node(x) == UnparseExpr(x)

\* source = ""; for node in body_nodes: source += ast.unparse(node) + "\n"
BodySource(body_nodes) ==
    Concat([i \in 1..Len(body_nodes) |-> UnparseStmt(body_nodes[i]) \o <<"\n">>])

\* the Call nodes below expression x (x at depth d), in pre-order, each with its depth
RECURSIVE CallsPre(_, _)
CallsPre(x, d) ==
    LET below == Concat([i \in 1..Len(x.args) |-> CallsPre(x.args[i], d + 1)])
                     \o Concat([i \in 1..Len(x.kw) |-> CallsPre(x.kw[i][2], d + 2)])
    IN  IF x.e = "Call" THEN <<[d |-> d, c |-> x]>> \o below ELSE below

\* ast.walk(ast.Module(body=body_nodes)) restricted to Call nodes: ast.walk is
\* breadth-first, i.e. the pre-order sorted stably by depth
WalkCalls(body_nodes) ==
    LET pre == Concat([i \in 1..Len(body_nodes) |->
                   CallsPre(body_nodes[i].t, 2) \o CallsPre(body_nodes[i].v, 2)])
        maxd == IF pre = <<>> THEN 1
                ELSE CHOOSE m \in {pre[i].d : i \in 1..Len(pre)} :
                        \A i \in 1..Len(pre) : pre[i].d <= m
        AtDepth(d) == SelectSeq(pre, LAMBDA n : n.d = d)
        levels == Concat([d \in 1..maxd |-> AtDepth(d)])
    IN  [i \in 1..Len(levels) |-> levels[i].c]

\* ------------------------------------------------------------------ scanners

\* _count_guards: assert statements plus calls whose callee text contains
\* "op.err" or "op.exit"
_count_guards(body_nodes) ==
    LET calls == WalkCalls(body_nodes)
    IN  Cardinality({i \in 1..Len(body_nodes) : body_nodes[i].k = "Assert"})
        + Cardinality({i \in 1..Len(calls) :
              Contains(calls[i].s, t_op_err) \/ Contains(calls[i].s, t_op_exit)})

\* the attr of a callee of the shape Attribute(Name self, attr), else <<>>
SelfCallee(f) ==
    IF IsAt(f, 1, t_self) /\ ~Contains(SubSeq(f, Len(t_self) + 1, Len(f)), <<".">>)
    THEN SubSeq(f, Len(t_self) + 1, Len(f))
    ELSE <<>>

\* _find_self_calls: the names called as self.name(...), first-seen order
_find_self_calls(body_nodes) ==
    LET calls == WalkCalls(body_nodes)
        names == [i \in 1..Len(calls) |-> SelfCallee(calls[i].s)]
    IN  Dedup(SelectSeq(names, LAMBDA n : n # <<>>))

\* _find_events: event names of calls whose callee text contains "emit"
_find_events(body_nodes) ==
    LET calls == WalkCalls(body_nodes)
        emits == SelectSeq(calls, LAMBDA c : Contains(c.s, t_emit) /\ c.args # <<>>)
        EventName(c) == IF c.args[1].e = "Call" THEN c.args[1].s
                        ELSE _unparse_node(c.args[1])
    IN  Dedup([i \in 1..Len(emits) |-> EventName(emits[i])])

\* ------------------------------------------------------------------ inner transactions

t_itxn_Payment == <<"i","t","x","n",".","P","a","y","m","e","n","t">>
t_itxn_AssetTransfer == <<"i","t","x","n",".","A","s","s","e","t","T","r","a","n","s","f","e","r">>
t_itxn_ApplicationCall == <<"i","t","x","n",".","A","p","p","l","i","c","a","t","i","o","n","C","a","l","l">>
t_itxn_AssetConfig == <<"i","t","x","n",".","A","s","s","e","t","C","o","n","f","i","g">>
t_itxn_KeyRegistration == <<"i","t","x","n",".","K","e","y","R","e","g","i","s","t","r","a","t","i","o","n">>
t_itxn_AssetFreeze == <<"i","t","x","n",".","A","s","s","e","t","F","r","e","e","z","e">>
t_InnerTransaction == <<"I","n","n","e","r","T","r","a","n","s","a","c","t","i","o","n">>
t_itxn_submit == <<"i","t","x","n",".","s","u","b","m","i","t">>
t_Payment == <<"P","a","y","m","e","n","t">>
t_AssetTransfer == <<"A","s","s","e","t","T","r","a","n","s","f","e","r">>
t_ApplicationCall == <<"A","p","p","l","i","c","a","t","i","o","n","C","a","l","l">>
t_AssetConfig == <<"A","s","s","e","t","C","o","n","f","i","g">>
t_KeyRegistration == <<"K","e","y","R","e","g","i","s","t","r","a","t","i","o","n">>
t_AssetFreeze == <<"A","s","s","e","t","F","r","e","e","z","e">>

\* _INNER_TXN_PATTERNS alternatives, in order, with _INNER_TXN_TYPE_MAP
_INNER_TXN_TYPE_MAP ==
    << <<t_itxn_Payment, t_Payment>>,
       <<t_itxn_AssetTransfer, t_AssetTransfer>>,
       <<t_itxn_ApplicationCall, t_ApplicationCall>>,
       <<t_itxn_AssetConfig, t_AssetConfig>>,
       <<t_itxn_KeyRegistration, t_KeyRegistration>>,
       <<t_itxn_AssetFreeze, t_AssetFreeze>>,
       <<t_InnerTransaction, t_InnerTransaction>>,
       <<t_itxn_submit, t_InnerTransaction>> >>

\* regex \b(lit)\b at position i of s
WordAt(s, i, lit) ==
    /\ IsAt(s, i, lit)
    /\ i = 1 \/ ~IsWord(s[i - 1])
    /\ i + Len(lit) > Len(s) \/ ~IsWord(s[i + Len(lit)])

\* the alternatives of _INNER_TXN_PATTERNS matching at i (at most one: no
\* alternative is a prefix of another up to a word boundary)
InnerTxnAt(s, i) ==
    {k \in 1..Len(_INNER_TXN_TYPE_MAP) : WordAt(s, i, _INNER_TXN_TYPE_MAP[k][1])}

\* _find_inner_txns: the transaction types matched in the unparsed body, each
\* once, in first-seen order (finditer scans left to right; two matches never
\* overlap)
_find_inner_txns(body_nodes) ==
    LET source == BodySource(body_nodes)
        F[i \in 0..Len(source)] ==
            IF i = 0 THEN <<>>
            ELSE IF InnerTxnAt(source, i) = {} THEN F[i - 1]
            ELSE Append(F[i - 1],
                        _INNER_TXN_TYPE_MAP[CHOOSE k \in InnerTxnAt(source, i) : TRUE][2])
    IN  Dedup(F[Len(source)])

\* ------------------------------------------------------------------ storage access

\* the positions reachable from i over \s*
AfterWs(s, i) == {j \in i..(Len(s) + 1) : \A k \in i..(j - 1) : s[k] \in WS}

CharAt(s, j, set) == j >= 1 /\ j <= Len(s) /\ s[j] \in set

\* the characters of the class [+\-*/|&^]
AssignOpChars == {"+", "-", "*", "/", "|", "&", "^"}
\* the characters of the class [+\-*/><!=&|^%]
DirectReadChars == {"+", "-", "*", "/", ">", "<", "!", "=", "&", "|", "^", "%"}

\* \s*[+\-*/|&^]?=  from position e
OptOpAssign(s, e) ==
    \E j \in AfterWs(s, e) :
        \/ CharAt(s, j, {"="})
        \/ CharAt(s, j, AssignOpChars) /\ CharAt(s, j + 1, {"="})

\* \s*[+\-*/|&^]=  from position e
OpAssign(s, e) ==
    \E j \in AfterWs(s, e) : CharAt(s, j, AssignOpChars) /\ CharAt(s, j + 1, {"="})

\* \[.*?\]  from position e: the positions after a closing bracket on the same line
AfterBrackets(s, e) ==
    IF ~CharAt(s, e, {"["}) THEN {}
    ELSE {k + 1 : k \in {k \in (e + 1)..Len(s) :
                            s[k] = "]" /\ \A m \in (e + 1)..(k - 1) : s[m] # "\n"}}

\* the positions where self\.{v} matches; re.escape(var) of an identifier is var
SelfVarAt(s, v) == {i \in 1..Len(s) : IsAt(s, i, t_self \o v)}
EndOf(i, v) == i + Len(t_self) + Len(v)

\* write_patterns
IsWrite(s, v) ==
    \E i \in SelfVarAt(s, v) :
        LET e == EndOf(i, v) IN
        \/ IsAt(s, e, t_dotvalue) /\ OptOpAssign(s, e + Len(t_dotvalue))
        \/ OptOpAssign(s, e)
        \/ IsAt(s, e, t_dotset)
        \/ \E k \in AfterBrackets(s, e) : OptOpAssign(s, k)
        \/ IsAt(s, e, t_dotvalue)
              /\ \E k \in AfterBrackets(s, e + Len(t_dotvalue)) : OptOpAssign(s, k)

\* read_patterns
IsRead(s, v) ==
    \E i \in SelfVarAt(s, v) :
        LET e == EndOf(i, v) IN
        \/ IsAt(s, e, t_dotvalue)
        \/ IsAt(s, e, t_dotget)
        \/ CharAt(s, e, {"["})

\* keyword.*self\.{v} : keyword somewhere before i on the same line
KeywordBefore(s, i, kw) ==
    \E r \in 1..(i - Len(kw)) :
        IsAt(s, r, kw) /\ \A m \in (r + Len(kw))..(i - 1) : s[m] # "\n"

\* direct_read_patterns
IsDirectRead(s, v) ==
    \E i \in SelfVarAt(s, v) :
        LET e == EndOf(i, v) IN
        \/ \E j \in AfterWs(s, e) : CharAt(s, j, DirectReadChars)
        \/ \E j \in AfterWs(s, e) : CharAt(s, j, {")"})
        \/ CharAt(s, i - 1, {"("})
        \/ KeywordBefore(s, i, t_return)
        \/ KeywordBefore(s, i, t_assert)
        \/ \E j \in AfterWs(s, e) : CharAt(s, j, {","})
        \/ \E c \in 1..(i - 1) : s[c] = "," /\ \A m \in (c + 1)..(i - 1) : s[m] \in WS
        \/ /\ CharAt(s, i - 1, {"("})
           /\ \E a \in 1..(i - 2 - Len(t_arc4)) :
                  IsAt(s, a, t_arc4) /\ \A m \in (a + Len(t_arc4))..(i - 2) : IsWord(s[m])

\* augmented_patterns
IsAugmented(s, v) ==
    \E i \in SelfVarAt(s, v) :
        LET e == EndOf(i, v) IN
        \/ OpAssign(s, e)
        \/ IsAt(s, e, t_dotvalue) /\ OpAssign(s, e + Len(t_dotvalue))

\* _find_storage_access(body_nodes, state_var_names): (reads, writes), each in
\* the order in which the set state_var_names is iterated (order)
_find_storage_access(body_nodes, order) ==
    LET source == BodySource(body_nodes)
    IN  [reads |-> SelectSeq(order, LAMBDA v :
                      IsAugmented(source, v) \/ IsRead(source, v) \/ IsDirectRead(source, v)),
         writes |-> SelectSeq(order, LAMBDA v :
                      IsAugmented(source, v) \/ IsWrite(source, v))]

\* ------------------------------------------------------------------ Python values

PyNone == [t |-> "None"]
PyStr(x) == [t |-> "str", s |-> x]
PyBool(b) == [t |-> "bool", b |-> b]
PyInt(n) == [t |-> "int", n |-> n]
PyList(items) == [t |-> "list", items |-> items]
\* a dict: its items <<key, value>> in insertion order, keys distinct texts
PyDict(items) == [t |-> "dict", items |-> items]

\* bool(v)
Truthy(v) ==
    CASE v.t = "None" -> FALSE
      [] v.t = "str" -> v.s # <<>>
      [] v.t = "bool" -> v.b
      [] v.t = "int" -> v.n # 0
      [] OTHER -> v.items # <<>>

IsDict(v) == v.t = "dict"
DictHas(d, key) == \E i \in 1..Len(d.items) : d.items[i][1] = key
\* d.get(key, default)
DictGet(d, key, default) ==
    IF DictHas(d, key)
    THEN d.items[CHOOSE i \in 1..Len(d.items) : d.items[i][1] = key][2]
    ELSE default
\* d[key] = value (d.update of one item)
DictSet(d, key, value) ==
    IF DictHas(d, key)
    THEN [d EXCEPT !.items = [i \in 1..Len(d.items) |->
                IF d.items[i][1] = key THEN <<key, value>> ELSE d.items[i]]]
    ELSE [d EXCEPT !.items = Append(d.items, <<key, value>>)]

t_class == <<"c","l","a","s","s"," ">>
t_def == <<"d","e","f"," ">>
t_arrow == <<" ","-",">"," ">>
t_None == <<"N","o","n","e">>
t_indent == <<" "," "," "," ">>
t_abimethod == <<"a","b","i","m","e","t","h","o","d">>
t_baremethod == <<"b","a","r","e","m","e","t","h","o","d">>
t_subroutine == <<"s","u","b","r","o","u","t","i","n","e">>
t_helper == <<"h","e","l","p","e","r">>
t_readonly == <<"r","e","a","d","o","n","l","y">>
t_read_only == <<"r","e","a","d","_","o","n","l","y">>
t_create == <<"c","r","e","a","t","e">>
t_require == <<"r","e","q","u","i","r","e">>
t_allow_actions == <<"a","l","l","o","w","_","a","c","t","i","o","n","s">>
t_True == <<"T","r","u","e">>
t_False == <<"F","a","l","s","e">>
t_Unknown == <<"U","n","k","n","o","w","n">>
t_GlobalState == <<"G","l","o","b","a","l","S","t","a","t","e">>
t_LocalState == <<"L","o","c","a","l","S","t","a","t","e">>
t_Box == <<"B","o","x">>
t_BoxMap == <<"B","o","x","M","a","p">>
t_BoxRef == <<"B","o","x","R","e","f">>
t_UInt64 == <<"U","I","n","t","6","4">>
t_Bytes == <<"B","y","t","e","s">>
t_Account == <<"A","c","c","o","u","n","t">>
t_Bool == <<"B","o","o","l">>
t_String == <<"S","t","r","i","n","g">>
t_arc4_UInt64 == <<"a","r","c","4",".","U","I","n","t","6","4">>
t_arc4_Bool == <<"a","r","c","4",".","B","o","o","l">>
t_arc4_String == <<"a","r","c","4",".","S","t","r","i","n","g">>
t_arc4_Address == <<"a","r","c","4",".","A","d","d","r","e","s","s">>
t_arc4_Byte == <<"a","r","c","4",".","B","y","t","e">>
t_default == <<"d","e","f","a","u","l","t">>
t_ARC4Contract == <<"A","R","C","4","C","o","n","t","r","a","c","t">>
t_Contract == <<"C","o","n","t","r","a","c","t">>
t_ARC4Client == <<"A","R","C","4","C","l","i","e","n","t">>
t_selfarg == <<"s","e","l","f">>
t_SyntaxErrorPrefix == <<"S","y","n","t","a","x"," ","e","r","r","o","r",":"," ">>
t_never_closed == <<"'","(","'"," ","w","a","s"," ","n","e","v","e","r"," ","c","l","o","s","e","d">>
t_NoContractClass == <<"N","o"," ","c","o","n","t","r","a","c","t"," ","c","l","a","s","s"," ","f","o","u","n","d"," ","i","n"," ","t","h","e"," ","c","o","d","e",".">>

\* str(v) of a text, a boolean or None
PyToStr(v) ==
    CASE v.t = "str" -> v.s
      [] v.t = "bool" -> IF v.b THEN t_True ELSE t_False
      [] OTHER -> t_None

\* ------------------------------------------------------------------ declarations

(***************************************************************************)
(* A keyword value of a decorator is [src, literal, val]: its source text, *)
(* whether ast.literal_eval accepts it, and then the value it yields.      *)
(* A decorator is [name, call, keywords]: name is what                     *)
(* _get_decorator_name returns (the dotted name, of the callee when the    *)
(* decorator is a call), keywords the <<arg, value>> of the call.          *)
(* A class-body node is a FunctionDef [n, name, decorator_list, args,      *)
(* returns, body] or an AnnAssign [n, name, annotation, value].            *)
(* A ClassDef is [name, bases, inside, body]; inside is <<>> for a         *)
(* top-level class, else the name of the top-level function holding it.    *)
(***************************************************************************)
KwLiteral(src, val) == [src |-> src, literal |-> TRUE, val |-> val]
KwExpression(src) == [src |-> src, literal |-> FALSE, val |-> PyNone]

Decorator(name) == [name |-> name, call |-> FALSE, keywords |-> <<>>]
DecoratorCall(name, kws) == [name |-> name, call |-> TRUE, keywords |-> kws]

\* a parameter written as name: arg is the identifier ast.parse stores
Arg(name, annotation) == [arg |-> NFKC(name), annotation |-> annotation, written |-> name]

FunctionDef(name, decs, args, returns, body) ==
    [n |-> "FunctionDef", name |-> name, decorator_list |-> decs, args |-> args,
     returns |-> returns, body |-> body]
AnnAssign(name, annotation, value) ==
    [n |-> "AnnAssign", name |-> name, annotation |-> annotation, value |-> value]
ClassDef(name, bases, inside, body) ==
    [name |-> name, bases |-> bases, inside |-> inside, body |-> body]

\* _get_decorator_name
_get_decorator_name(dec) == dec.name

\* _get_decorator_kwargs: a literal keyword is evaluated, any other is kept as
\* its unparsed text
_get_decorator_kwargs(dec) ==
    IF ~dec.call THEN PyDict(<<>>)
    ELSE PyDict([i \in 1..Len(dec.keywords) |->
            <<dec.keywords[i][1],
              IF dec.keywords[i][2].literal THEN dec.keywords[i][2].val
              ELSE PyStr(dec.keywords[i][2].src)>>])

\* _annotation_str; <<>> is a missing annotation
_annotation_str(node) == IF node = <<>> THEN t_None ELSE node

\* ------------------------------------------------------------------ storage-type detection

_STORAGE_CONSTRUCTORS == <<t_GlobalState, t_LocalState, t_Box, t_BoxMap, t_BoxRef>>

_DIRECT_TYPE_MAP ==
    <<t_UInt64, t_Bytes, t_Account, t_Bool, t_String,
      t_arc4_UInt64, t_arc4_Bool, t_arc4_String, t_arc4_Address, t_arc4_Byte>>

\* _detect_storage_call: PyNone, or [storage_type, data_type, default_value]
_detect_storage_call(value_node) ==
    IF value_node.e # "Call" THEN PyNone
    ELSE
    LET func_name == value_node.s
        short == AfterLastDot(func_name)
        defaults == SelectSeq(value_node.kw, LAMBDA kv : kv[1] = t_default)
    IN  IF short \notin Range(_STORAGE_CONSTRUCTORS)
        THEN IF func_name \in Range(_DIRECT_TYPE_MAP) \/ short \in Range(_DIRECT_TYPE_MAP)
             THEN [t |-> "info",
                   storage_type |-> t_GlobalState,
                   data_type |-> IF func_name \in Range(_DIRECT_TYPE_MAP)
                                 THEN func_name ELSE short,
                   default_value |-> IF value_node.args # <<>>
                                     THEN PyStr(_unparse_node(value_node))
                                     ELSE PyNone]
             ELSE PyNone
        ELSE [t |-> "info",
              storage_type |-> short,
              data_type |-> IF value_node.args # <<>>
                            THEN _unparse_node(value_node.args[1])
                            ELSE t_Unknown,
              default_value |-> IF defaults # <<>>
                                THEN PyStr(_unparse_node(defaults[Len(defaults)][2]))
                                ELSE PyNone]

\* ------------------------------------------------------------------ analyze_contract: parse, locate

(***************************************************************************)
(* A source is [classes, unbalanced, comment]: the class declarations of   *)
(* its text in source order, whether the text ends in an unclosed          *)
(* parenthesis (ast.parse then raises SyntaxError), and a trailing comment *)
(* line (text the parser drops).                                           *)
(***************************************************************************)
Source(classes, unbalanced, comment) ==
    [classes |-> classes, unbalanced |-> unbalanced, comment |-> comment]

\* a parser that raises no SyntaxError and yields the classes read before the
\* unclosed parenthesis: the fault the short-circuit of lines 530-542 excludes
ParseLenient(algopy_code) ==
    [ok |-> TRUE, exc |-> <<>>, classes |-> algopy_code.classes]

\* ast.parse(algopy_code): the tree, or the SyntaxError raised (exc is its
\* message without the position "(<unknown>, line n)" that str(exc) appends)
Parse(algopy_code) ==
    IF algopy_code.unbalanced
    THEN [ok |-> FALSE, exc |-> t_never_closed, classes |-> <<>>]
    ELSE [ok |-> TRUE, exc |-> <<>>, classes |-> algopy_code.classes]

\* the ClassDef nodes in ast.walk order: breadth-first, so every top-level
\* class precedes every class nested in a function
WalkClasses(classes) ==
    SelectSeq(classes, LAMBDA c : c.inside = <<>>)
        \o SelectSeq(classes, LAMBDA c : c.inside # <<>>)

\* any(kw in base_str for kw in ("ARC4Contract", "Contract", "ARC4Client")) for a base
BaseMatches(c) ==
    \E b \in 1..Len(c.bases) :
        \E kw \in {t_ARC4Contract, t_Contract, t_ARC4Client} : Contains(c.bases[b], kw)

\* contract_classes: the classes with a matching base, else the first class
ContractClasses(classes) ==
    LET walk == WalkClasses(classes)
        matching == SelectSeq(walk, BaseMatches)
    IN  IF matching # <<>> THEN matching
        ELSE IF walk # <<>> THEN <<walk[1]>>
        ELSE <<>>

\* ------------------------------------------------------------------ analyze_contract: state variables

\* a scan that keeps only the assignments whose right-hand side is a recognised
\* constructor call and drops every other one: the fault the else branch of
\* lines 609-617 excludes
StateVariablesDroppingUnknown(node) ==
    IF node.n = "FunctionDef" /\ node.name = t_init
    THEN LET assigns == SelectSeq(node.body,
                            LAMBDA st : /\ st.k = "Assign"
                                        /\ st.t.e = "Attr"
                                        /\ _detect_storage_call(st.v) # PyNone)
         IN  [i \in 1..Len(assigns) |->
                 [name |-> assigns[i].t.s,
                  storage_type |-> _detect_storage_call(assigns[i].v).storage_type,
                  data_type |-> _detect_storage_call(assigns[i].v).data_type,
                  default_value |-> _detect_storage_call(assigns[i].v).default_value]]
    ELSE <<>>

\* the entries one class-body node adds to state_variables
StateVariablesOf(node) ==
    IF node.n = "FunctionDef" /\ node.name = t_init
    THEN LET assigns == SelectSeq(node.body,
                            LAMBDA st : st.k = "Assign" /\ st.t.e = "Attr")
             Entry(st) ==
                 LET info == _detect_storage_call(st.v)
                 IN  IF info # PyNone
                     THEN [name |-> st.t.s,
                           storage_type |-> info.storage_type,
                           data_type |-> info.data_type,
                           default_value |-> info.default_value]
                     ELSE [name |-> st.t.s,
                           storage_type |-> t_Unknown,
                           data_type |-> _unparse_node(st.v),
                           default_value |-> PyNone]
         IN  [i \in 1..Len(assigns) |-> Entry(assigns[i])]
    ELSE IF node.n = "AnnAssign"
    THEN LET ann_str == _annotation_str(node.annotation)
             keys == SelectSeq(_STORAGE_CONSTRUCTORS, LAMBDA key : Contains(ann_str, key))
         IN  IF keys = <<>> THEN <<>>
             ELSE <<[name |-> node.name,
                     storage_type |-> keys[1],
                     data_type |-> ann_str,
                     default_value |-> IF node.value # Nil
                                       THEN PyStr(_unparse_node(node.value))
                                       ELSE PyNone]>>
    ELSE <<>>

\* state_variables of the contract class, in source order
ExtractStateVariables(contract_cls) ==
    Concat([i \in 1..Len(contract_cls.body) |-> StateVariablesOf(contract_cls.body[i])])

\* state_var_names: every name appended to state_variables is added to the set
StateVarNames(state_variables) ==
    {state_variables[i].name : i \in 1..Len(state_variables)}

\* ------------------------------------------------------------------ analyze_contract: members

Absent == [t |-> "absent"]

\* dec_kwargs: the keyword dicts of all decorators merged by dict.update
MergedKwargs(decs) ==
    LET all == Concat([i \in 1..Len(decs) |-> _get_decorator_kwargs(decs[i]).items])
        F[i \in 0..Len(all)] ==
            IF i = 0 THEN PyDict(<<>>) ELSE DictSet(F[i - 1], all[i][1], all[i][2])
    IN  F[Len(all)]

IsAbiMethod(node) ==
    \E i \in 1..Len(node.decorator_list) :
        Contains(_get_decorator_name(node.decorator_list[i]), t_abimethod)
IsBareMethod(node) ==
    \E i \in 1..Len(node.decorator_list) :
        Contains(_get_decorator_name(node.decorator_list[i]), t_baremethod)
IsSubroutineDec(node) ==
    \E i \in 1..Len(node.decorator_list) :
        Contains(_get_decorator_name(node.decorator_list[i]), t_subroutine)

\* allowed_actions from the allow_actions keyword
AllowedActions(allow_acts) ==
    IF allow_acts.t = "list"
    THEN [i \in 1..Len(allow_acts.items) |-> PyToStr(allow_acts.items[i])]
    ELSE IF allow_acts.t = "str" THEN <<allow_acts.s>>
    ELSE <<>>

\* the entry built for one FunctionDef of the class (line_number, which no
\* later step reads, is left out); order is the iteration order of
\* state_var_names
MemberEntry(node, order) ==
    LET dec_kwargs == MergedKwargs(node.decorator_list)
        access == _find_storage_access(node.body, order)
        calls == _find_self_calls(node.body)
        notself == SelectSeq(node.args, LAMBDA a : a.arg # t_selfarg)
        is_readonly == DictGet(dec_kwargs, t_readonly,
                               DictGet(dec_kwargs, t_read_only, PyBool(FALSE)))
        create_val == DictGet(dec_kwargs, t_create, PyNone)
    IN  [name |-> node.name,
         params |-> [i \in 1..Len(notself) |->
                        [name |-> notself[i].arg,
                         type |-> _annotation_str(notself[i].annotation)]],
         return_type |-> _annotation_str(node.returns),
         reads_state |-> access.reads,
         writes_state |-> access.writes,
         calls_methods |-> SelectSeq(calls,
                              LAMBDA c : c \notin Range(order) /\ c # t_init),
         inner_txns |-> _find_inner_txns(node.body),
         emits_events |-> _find_events(node.body),
         guards_count |-> _count_guards(node.body),
         decorator |-> IF IsAbiMethod(node) THEN t_abimethod
                       ELSE IF IsBareMethod(node) THEN t_baremethod
                       ELSE IF IsSubroutineDec(node) THEN t_subroutine
                       ELSE t_helper,
         is_readonly |-> IF IsAbiMethod(node) \/ IsBareMethod(node)
                         THEN PyBool(Truthy(is_readonly)) ELSE Absent,
         is_create |-> IF IsAbiMethod(node) \/ IsBareMethod(node)
                       THEN PyBool(create_val = PyStr(t_require) \/ create_val = PyBool(TRUE))
                       ELSE Absent,
         allowed_actions |-> IF IsAbiMethod(node) \/ IsBareMethod(node)
                             THEN AllowedActions(DictGet(dec_kwargs, t_allow_actions,
                                                         PyList(<<>>)))
                             ELSE <<>>,
         abi_signature |-> Absent,
         description |-> Absent]

\* the FunctionDef nodes of the class other than __init__, in source order
MemberNodes(contract_cls) ==
    SelectSeq(contract_cls.body, LAMBDA node : node.n = "FunctionDef" /\ node.name # t_init)

\* methods with the fault of testing the subroutine marker first: a node marked
\* both subroutine and abimethod is left out
MethodsUnlessSubroutine(contract_cls, order) ==
    LET nodes == SelectSeq(MemberNodes(contract_cls),
                           LAMBDA node : (IsAbiMethod(node) \/ IsBareMethod(node))
                                         /\ ~IsSubroutineDec(node))
    IN  [k \in 1..Len(nodes) |-> MemberEntry(nodes[k], order)]

\* methods: the entries of the nodes marked abimethod or baremethod
ExtractMethods(contract_cls, order) ==
    LET nodes == SelectSeq(MemberNodes(contract_cls),
                           LAMBDA node : IsAbiMethod(node) \/ IsBareMethod(node))
    IN  [i \in 1..Len(nodes) |-> MemberEntry(nodes[i], order)]

\* subroutines: the entries of all other nodes
ExtractSubroutines(contract_cls, order) ==
    LET nodes == SelectSeq(MemberNodes(contract_cls),
                           LAMBDA node : ~(IsAbiMethod(node) \/ IsBareMethod(node)))
    IN  [i \in 1..Len(nodes) |-> MemberEntry(nodes[i], order)]

\* ------------------------------------------------------------------ analyze_contract: graphs

\* the call graph without the test "callee in all_func_names" of line 737
BuildCallGraphUnfiltered(methods, subroutines) ==
    LET members == methods \o subroutines
        EdgesOf(m) ==
            [k \in 1..Len(m.calls_methods) |-> [from |-> m.name, to |-> m.calls_methods[k]]]
    IN  Concat([k \in 1..Len(members) |-> EdgesOf(members[k])])

\* call_graph: one edge per call of a known member name
BuildCallGraph(methods, subroutines) ==
    LET members == methods \o subroutines
        all_func_names == {members[i].name : i \in 1..Len(members)}
        EdgesOf(m) ==
            LET known == SelectSeq(m.calls_methods, LAMBDA callee : callee \in all_func_names)
            IN  [i \in 1..Len(known) |-> [from |-> m.name, to |-> known[i]]]
    IN  Concat([i \in 1..Len(members) |-> EdgesOf(members[i])])

\* storage_access_map: per member its read edges, then its write edges
BuildStorageAccessMap(methods, subroutines) ==
    LET members == methods \o subroutines
        EdgesOf(m) ==
            [i \in 1..Len(m.reads_state) |->
                [method |-> m.name, variable |-> m.reads_state[i], access_type |-> "read"]]
            \o [i \in 1..Len(m.writes_state) |->
                [method |-> m.name, variable |-> m.writes_state[i], access_type |-> "write"]]
    IN  Concat([i \in 1..Len(members) |-> EdgesOf(members[i])])

\* inner_txn_map
BuildInnerTxnMap(methods, subroutines) ==
    LET members == methods \o subroutines
        EdgesOf(m) ==
            [i \in 1..Len(m.inner_txns) |-> [method |-> m.name, txn_type |-> m.inner_txns[i]]]
    IN  Concat([i \in 1..Len(members) |-> EdgesOf(members[i])])

\* an events list with one entry per emitting member instead of one per event
\* name: the fault the dict events_agg of lines 767-770 excludes
BuildEventsPerMember(methods, subroutines) ==
    Concat([i \in 1..Len(methods \o subroutines) |->
        [j \in 1..Len((methods \o subroutines)[i].emits_events) |->
            [name |-> (methods \o subroutines)[i].emits_events[j],
             emitted_by |-> <<(methods \o subroutines)[i].name>>]]])

\* events_list: events_agg.setdefault(ev, []).append(m["name"]), in first-seen order
BuildEvents(methods, subroutines) ==
    LET members == methods \o subroutines
        pairs == Concat([i \in 1..Len(members) |->
                     [j \in 1..Len(members[i].emits_events) |->
                         <<members[i].emits_events[j], members[i].name>>]])
        names == Dedup([i \in 1..Len(pairs) |-> pairs[i][1]])
        EmittersOf(ev) ==
            LET mine == SelectSeq(pairs, LAMBDA pr : pr[1] = ev)
            IN  [i \in 1..Len(mine) |-> mine[i][2]]
    IN  [i \in 1..Len(names) |-> [name |-> names[i], emitted_by |-> EmittersOf(names[i])]]

\* ------------------------------------------------------------------ analyze_contract: ARC-32

t_methods == <<"m","e","t","h","o","d","s">>
t_contract == <<"c","o","n","t","r","a","c","t">>
t_name == <<"n","a","m","e">>
t_args == <<"a","r","g","s">>
t_type == <<"t","y","p","e">>
t_returns == <<"r","e","t","u","r","n","s">>
t_desc == <<"d","e","s","c">>
t_void == <<"v","o","i","d">>
t_qmark == <<"?">>
t_msg_sender == <<"m","s","g",".","s","e","n","d","e","r">>
t_Txn_sender == <<"T","x","n",".","s","e","n","d","e","r">>
t_context == <<"c","o","n","t","e","x","t">>
t_require_paren == <<"r","e","q","u","i","r","e","(">>
t_require_dots == <<"r","e","q","u","i","r","e","(",".",".",".",")">>
t_assert_dots == <<"a","s","s","e","r","t"," ",".",".",".">>
t_control_flow == <<"c","o","n","t","r","o","l","_","f","l","o","w">>
t_payable == <<"p","a","y","a","b","l","e">>
t_itxn_Payment_PaymentTxn == <<"i","t","x","n",".","P","a","y","m","e","n","t"," ","/"," ","P","a","y","m","e","n","t","T","x","n">>
t_payment == <<"p","a","y","m","e","n","t">>
t_constructor == <<"c","o","n","s","t","r","u","c","t","o","r">>
t_constructor_dots == <<"c","o","n","s","t","r","u","c","t","o","r","(",".",".",".",")">>
t_baremethod_create == <<"@","a","r","c","4",".","b","a","r","e","m","e","t","h","o","d","(","c","r","e","a","t","e","=","'","r","e","q","u","i","r","e","'",")">>
t_lifecycle == <<"l","i","f","e","c","y","c","l","e">>
t_public == <<"p","u","b","l","i","c">>
t_external == <<"e","x","t","e","r","n","a","l">>
t_public_external == <<"p","u","b","l","i","c"," ","/"," ","e","x","t","e","r","n","a","l"," ","f","u","n","c","t","i","o","n">>
t_at_abimethod == <<"@","a","r","c","4",".","a","b","i","m","e","t","h","o","d">>
t_visibility == <<"v","i","s","i","b","i","l","i","t","y">>
t_internal == <<"i","n","t","e","r","n","a","l">>
t_private == <<"p","r","i","v","a","t","e">>
t_function == <<"f","u","n","c","t","i","o","n">>
t_internal_private == <<"i","n","t","e","r","n","a","l"," ","/"," ","p","r","i","v","a","t","e"," ","f","u","n","c","t","i","o","n">>
t_at_subroutine == <<"@","s","u","b","r","o","u","t","i","n","e">>
t_block_timestamp == <<"b","l","o","c","k",".","t","i","m","e","s","t","a","m","p">>
t_Global_latest_timestamp == <<"G","l","o","b","a","l",".","l","a","t","e","s","t","_","t","i","m","e","s","t","a","m","p">>
t_msg_value == <<"m","s","g",".","v","a","l","u","e">>
t_PaymentTxn_amount == <<"P","a","y","m","e","n","t","T","x","n",".","a","m","o","u","n","t"," ","(","g","r","o","u","p","e","d"," ","t","x","n",")">>
t_mapping == <<"m","a","p","p","i","n","g">>
t_event == <<"e","v","e","n","t">>
t_modifier == <<"m","o","d","i","f","i","e","r">>
t_int == <<"i","n","t">>
t_bool == <<"b","o","o","l">>
t_string == <<"s","t","r","i","n","g">>
t_address == <<"a","d","d","r","e","s","s">>
t_bytes == <<"b","y","t","e","s">>

\* iter(v): the items a for loop visits, or not iterable (TypeError)
Iterate(v) ==
    CASE v.t = "list" -> [ok |-> TRUE, items |-> v.items]
      [] v.t = "dict" -> [ok |-> TRUE,
                          items |-> [i \in 1..Len(v.items) |-> PyStr(v.items[i][1])]]
      [] v.t = "str" -> [ok |-> TRUE, items |-> [i \in 1..Len(v.s) |-> PyStr(<<v.s[i]>>)]]
      [] OTHER -> [ok |-> FALSE, items |-> <<>>]

\* arc32_methods_list: [ok, list]; not ok is the AttributeError of .get on a
\* value that is no dict
Arc32MethodsList(arc32_json) ==
    IF ~IsDict(arc32_json) THEN [ok |-> FALSE, list |-> PyNone]
    ELSE
    LET top == DictGet(arc32_json, t_methods, PyList(<<>>))
        contract_section == DictGet(arc32_json, t_contract, PyDict(<<>>))
    IN  IF Truthy(top) THEN [ok |-> TRUE, list |-> top]
        ELSE IF IsDict(contract_section)
        THEN [ok |-> TRUE, list |-> DictGet(contract_section, t_methods, PyList(<<>>))]
        ELSE [ok |-> TRUE, list |-> top]

\* arc32_by_name.get(name): the last descriptor dict of the list carrying that name
Arc32ByName(items, name) ==
    LET named == SelectSeq(items,
                     LAMBDA am : IsDict(am) /\ DictHas(am, t_name)
                                 /\ DictGet(am, t_name, PyNone) = PyStr(name))
    IN  IF named = <<>> THEN PyNone ELSE named[Len(named)]

\* arc32_by_name[am["name"]] = am raises TypeError for an unhashable name
Arc32NamesHashable(items) ==
    \A i \in 1..Len(items) :
        IsDict(items[i]) /\ DictHas(items[i], t_name)
            => DictGet(items[i], t_name, PyNone).t \notin {"list", "dict"}

\* the signature lines 794-796 build for method m from descriptor arc32_info:
\* [ok, sig]; not ok is an AttributeError (.get on an argument or a returns
\* value that is no dict) or a TypeError (args not iterable, a type no text)
Arc32Signature(m, arc32_info) ==
    LET args == Iterate(DictGet(arc32_info, t_args, PyList(<<>>)))
        returns == DictGet(arc32_info, t_returns, PyDict(<<>>))
        ArgType(a) == DictGet(a, t_type, PyStr(t_qmark))
    IN  IF \/ ~args.ok
           \/ \E i \in 1..Len(args.items) : ~IsDict(args.items[i])
           \/ \E i \in 1..Len(args.items) : ArgType(args.items[i]).t # "str"
           \/ ~IsDict(returns)
        THEN [ok |-> FALSE, sig |-> <<>>]
        ELSE [ok |-> TRUE,
              sig |-> m.name \o <<"(">>
                      \o Join([i \in 1..Len(args.items) |-> ArgType(args.items[i]).s], <<",">>)
                      \o <<")">>
                      \o PyToStr(DictGet(returns, t_type, PyStr(t_void)))]

\* a cross-reference that gives every method a signature whether or not a
\* descriptor carries its name: the fault the test of line 792 excludes
CrossReferenceEveryMethod(methods, arc32_json) ==
    IF ~Truthy(arc32_json) THEN [raised |-> FALSE, methods |-> methods]
    ELSE [raised |-> FALSE,
          methods |-> [i \in 1..Len(methods) |->
                          [methods[i] EXCEPT
                              !.abi_signature = PyStr(methods[i].name \o <<"(", ")">> \o t_void)]]]

\* the ARC-32 cross-reference of lines 778-798: [raised, methods]
CrossReference(methods, arc32_json) ==
    IF ~Truthy(arc32_json) THEN [raised |-> FALSE, methods |-> methods]
    ELSE
    LET list == Arc32MethodsList(arc32_json)
        items == IF list.ok THEN Iterate(list.list) ELSE [ok |-> FALSE, items |-> <<>>]
        InfoOf(m) == Arc32ByName(items.items, m.name)
        Updated(m) ==
            IF ~Truthy(InfoOf(m)) THEN m
            ELSE [m EXCEPT
                    !.abi_signature = PyStr(Arc32Signature(m, InfoOf(m)).sig),
                    !.description = IF Truthy(DictGet(InfoOf(m), t_desc, PyNone))
                                    THEN DictGet(InfoOf(m), t_desc, PyNone)
                                    ELSE m.description]
    IN  IF \/ ~items.ok
           \/ ~Arc32NamesHashable(items.items)
           \/ \E i \in 1..Len(methods) :
                 Truthy(InfoOf(methods[i])) /\ ~Arc32Signature(methods[i], InfoOf(methods[i])).ok
        THEN [raised |-> TRUE, methods |-> methods]
        ELSE [raised |-> FALSE, methods |-> [i \in 1..Len(methods) |-> Updated(methods[i])]]

\* ------------------------------------------------------------------ security notes

\* the notes with the fault of testing that some non-readonly method is
\* guarded, where line 472 compares the two lengths
NotesSafeWhenSomeGuarded(methods, subroutines) ==
    LET unguarded == SelectSeq(methods,
                         LAMBDA m : m.guards_count = 0 /\ ~Truthy(m.is_readonly))
        guarded == SelectSeq(methods,
                         LAMBDA m : m.guards_count > 0 /\ ~Truthy(m.is_readonly))
    IN  [k \in 1..Len(unguarded) |-> [type |-> "warning", method |-> PyStr(unguarded[k].name)]]
        \o (IF guarded # <<>> THEN <<[type |-> "safe", method |-> PyNone]>> ELSE <<>>)

\* the notes without the test "not m.get('is_readonly')" of line 454
NotesIgnoringReadonly(methods, subroutines) ==
    LET unguarded == SelectSeq(methods, LAMBDA m : m.guards_count = 0)
    IN  [k \in 1..Len(unguarded) |-> [type |-> "warning", method |-> PyStr(unguarded[k].name)]]

\* _generate_security_notes; a note is [type, method] (its message is a fixed
\* text around the method name)
_generate_security_notes(methods, subroutines) ==
    LET unguarded == SelectSeq(methods,
                         LAMBDA m : m.guards_count = 0 /\ ~Truthy(m.is_readonly))
        dangerous == SelectSeq(methods,
                         LAMBDA m : m.inner_txns # <<>> /\ m.guards_count = 0)
        guarded == SelectSeq(methods,
                         LAMBDA m : m.guards_count > 0 /\ ~Truthy(m.is_readonly))
        non_readonly == SelectSeq(methods, LAMBDA m : ~Truthy(m.is_readonly))
        has_create == \E i \in 1..Len(methods) : Truthy(methods[i].is_create)
    IN  [i \in 1..Len(unguarded) |-> [type |-> "warning", method |-> PyStr(unguarded[i].name)]]
        \o [i \in 1..Len(dangerous) |-> [type |-> "danger", method |-> PyStr(dangerous[i].name)]]
        \o (IF non_readonly # <<>> /\ Len(guarded) = Len(non_readonly)
            THEN <<[type |-> "safe", method |-> PyNone]>> ELSE <<>>)
        \o (IF ~has_create THEN <<[type |-> "info", method |-> PyNone]>> ELSE <<>>)

\* ------------------------------------------------------------------ Solidity mapping

MappingEntry(sol, algo, kind) ==
    [solidity_element |-> sol, algorand_element |-> algo, mapping_type |-> kind]

\* re.search(r"\b(a|b)\b", text)
SearchWord(text, words) == \E i \in 1..Len(text) : \E w \in words : WordAt(text, i, w)

\* re.search(r"\b(internal|private)\s+function\b", text)
SearchInternalFunction(text) ==
    \E i \in 1..Len(text) : \E w \in {t_internal, t_private} :
        /\ IsAt(text, i, w)
        /\ i = 1 \/ ~IsWord(text[i - 1])
        /\ \E j \in AfterWs(text, i + Len(w)) :
              /\ j > i + Len(w)
              /\ IsAt(text, j, t_function)
              /\ j + Len(t_function) > Len(text) \/ ~IsWord(text[j + Len(t_function)])

\* the texts on which the four finditer rules of _build_solidity_mapping
\* (mapping(...), typed state variables, event, modifier) find nothing
NoDeclarations(text) ==
    \A w \in {t_mapping, t_int, t_bool, t_string, t_address, t_bytes, t_event, t_modifier} :
        ~Contains(text, w)

\* _build_solidity_mapping on a Solidity text with NoDeclarations: the
\* remaining rules, in the order of the code
_build_solidity_mapping(solidity_code, algopy_code) ==
    (IF Contains(solidity_code, t_msg_sender)
     THEN <<MappingEntry(t_msg_sender, t_Txn_sender, t_context)>> ELSE <<>>)
    \o (IF Contains(solidity_code, t_require_paren)
        THEN <<MappingEntry(t_require_dots, t_assert_dots, t_control_flow)>> ELSE <<>>)
    \o (IF Contains(solidity_code, t_payable)
        THEN <<MappingEntry(t_payable, t_itxn_Payment_PaymentTxn, t_payment)>> ELSE <<>>)
    \o (IF Contains(solidity_code, t_constructor)
        THEN <<MappingEntry(t_constructor_dots, t_baremethod_create, t_lifecycle)>> ELSE <<>>)
    \o (IF SearchWord(solidity_code, {t_public, t_external})
        THEN <<MappingEntry(t_public_external, t_at_abimethod, t_visibility)>> ELSE <<>>)
    \o (IF SearchInternalFunction(solidity_code)
        THEN <<MappingEntry(t_internal_private, t_at_subroutine, t_visibility)>> ELSE <<>>)
    \o (IF Contains(solidity_code, t_block_timestamp)
        THEN <<MappingEntry(t_block_timestamp, t_Global_latest_timestamp, t_context)>>
        ELSE <<>>)
    \o (IF Contains(solidity_code, t_msg_value)
        THEN <<MappingEntry(t_msg_value, t_PaymentTxn_amount, t_context)>> ELSE <<>>)

\* ------------------------------------------------------------------ analyze_contract: result

\* the dict analyze_contract returns; raised marks a call that an exception left
ResultDict(contract_name, state_vars, ms, subs, cg, sam, itm, evs, notes, solmap, errs) ==
    [raised |-> FALSE,
     contract_name |-> contract_name,
     state_variables |-> state_vars,
     methods |-> ms,
     subroutines |-> subs,
     call_graph |-> cg,
     storage_access_map |-> sam,
     inner_txn_map |-> itm,
     events |-> evs,
     security_notes |-> notes,
     solidity_mapping |-> solmap,
     errors |-> errs]

\* the early return of lines 530-542 and 565-577
DegradedResult(message) ==
    ResultDict(t_Unknown, <<>>, <<>>, <<>>, <<>>, <<>>, <<>>, <<>>, <<>>, <<>>, <<message>>)

\* no dict is returned: an exception propagates to the caller
RaisedResult == [DegradedResult(<<>>) EXCEPT !.raised = TRUE, !.errors = <<>>]

\* the degraded result without its message: the fault of returning early and
\* reporting nothing
SilentResult ==
    ResultDict(t_Unknown, <<>>, <<>>, <<>>, <<>>, <<>>, <<>>, <<>>, <<>>, <<>>, <<>>)

SyntaxErrorResult(tree) == DegradedResult(t_SyntaxErrorPrefix \o tree.exc)
NoClassResult == DegradedResult(t_NoContractClass)

\* lines 800-821: security notes, Solidity mapping, the composed result
ComposeResult(code, sol, cls, state_vars, ms, subs, cg, sam, itm, evs) ==
    ResultDict(cls.name, state_vars, ms, subs, cg, sam, itm, evs,
               _generate_security_notes(ms, subs),
               IF Truthy(sol) THEN _build_solidity_mapping(sol.s, code) ELSE <<>>,
               <<>>)

\* analyze_contract as one function; order is the iteration order of
\* state_var_names in this call
AnalyzeContract(code, arc32, sol, order) ==
    LET tree == Parse(code)
        found == ContractClasses(tree.classes)
        cls == found[1]
        state_vars == ExtractStateVariables(cls)
        ms == ExtractMethods(cls, order)
        subs == ExtractSubroutines(cls, order)
        xref == CrossReference(ms, arc32)
    IN  IF ~tree.ok THEN SyntaxErrorResult(tree)
        ELSE IF found = <<>> THEN NoClassResult
        ELSE IF xref.raised THEN RaisedResult
        ELSE ComposeResult(code, sol, cls, state_vars, xref.methods, subs,
                           BuildCallGraph(ms, subs), BuildStorageAccessMap(ms, subs),
                           BuildInnerTxnMap(ms, subs), BuildEvents(ms, subs))

\* the state_var_names set of a call on code ({} when it returns early)
StateVarNamesOf(code) ==
    IF ~Parse(code).ok \/ ContractClasses(Parse(code).classes) = <<>> THEN {}
    ELSE StateVarNames(ExtractStateVariables(ContractClasses(Parse(code).classes)[1]))

\* ------------------------------------------------------------------ analyze_multi_contract

t_app_id_suffix == <<"_","a","p","p","_","i","d">>
t_app_suffix == <<"_","a","p","p">>
t_id_suffix == <<"_","i","d">>
t_references == <<"r","e","f","e","r","e","n","c","e","s">>
t_Token == <<"T","o","k","e","n">>
t_Vault == <<"V","a","u","l","t">>
t_Market == <<"M","a","r","k","e","t">>
t_vault_app_id == <<"v","a","u","l","t","_","a","p","p","_","i","d">>

\* one element of the input list
Contract(name, code, arc32, sol) ==
    [name |-> name, algopy_code |-> code, arc32_json |-> arc32, solidity_code |-> sol]

\* re.sub(r"(?<=[a-z0-9])(?=[A-Z])", "_", name).lower()
Snake(name) ==
    Lower(Concat([k \in 1..Len(name) |->
        IF k > 1 /\ IsLowerOrDigit(name[k - 1]) /\ IsUpper(name[k])
        THEN <<"_", name[k]>> ELSE <<name[k]>>]))

\* the set variants built for one contract name
NameVariants(name) ==
    LET lower == Lower(name)
        snake == Snake(name)
    IN  {lower, snake, lower \o t_app_id_suffix, snake \o t_app_id_suffix,
         lower \o t_app_suffix, snake \o t_app_suffix,
         lower \o t_id_suffix, snake \o t_id_suffix}

Edge(from_c, to_c, rel_type, via_method) ==
    [from_contract |-> from_c, to_contract |-> to_c,
     relationship_type |-> rel_type, via_method |-> via_method]

\* the members of an analysis whose inner_txns hold "ApplicationCall"
AppCallers(members) ==
    SelectSeq(members, LAMBDA m : t_ApplicationCall \in Range(m.inner_txns))

\* strategy 1: the edge for other_name occurring in code
ReferenceEdge(analysis, code, other_name) ==
    Edge(analysis.contract_name, other_name,
         IF Contains(code, t_itxn_ApplicationCall) THEN t_ApplicationCall ELSE t_references,
         PyNone)

\* strategy 2: the variants of other_name that occur in code_lower; the one the
\* loop meets first is the first of them in the order of list(variants)
MatchingVariants(code_lower, other_name) ==
    {variant \in NameVariants(other_name) : Contains(code_lower, variant)}

\* strategy 2 without its first loop: the first member with an ApplicationCall
\* is named whether or not it accesses a matching state variable, the fault
\* lines 907-917 exclude
ConventionEdgeFirstCaller(analysis, other_name, variant) ==
    IF AppCallers(analysis.methods \o analysis.subroutines) # <<>>
    THEN Edge(analysis.contract_name, other_name, t_ApplicationCall,
              PyStr(AppCallers(analysis.methods \o analysis.subroutines)[1].name))
    ELSE Edge(analysis.contract_name, other_name, t_references, PyNone)

\* strategy 2: the edge for the variant met first
ConventionEdge(analysis, other_name, variant) ==
    LET callers == AppCallers(analysis.methods \o analysis.subroutines)
        accessing == SelectSeq(callers, LAMBDA m :
                        \E sv \in Range(m.reads_state \o m.writes_state) :
                            Contains(Lower(sv), variant))
    IN  IF accessing # <<>>
        THEN Edge(analysis.contract_name, other_name, t_ApplicationCall,
                  PyStr(accessing[1].name))
        ELSE IF callers # <<>>
        THEN Edge(analysis.contract_name, other_name, t_ApplicationCall,
                  PyStr(callers[1].name))
        ELSE Edge(analysis.contract_name, other_name, t_references, PyNone)

\* strategy 3: the methods with an ApplicationCall and a parameter whose
\* lower-cased name holds a variant of other_name
ParamCallers(analysis, other_name) ==
    SelectSeq(AppCallers(analysis.methods), LAMBDA m :
        \E p \in Range(m.params) : \E variant \in NameVariants(other_name) :
            Contains(Lower(p.name), variant))

ParamEdge(analysis, other_name) ==
    Edge(analysis.contract_name, other_name, t_ApplicationCall,
         PyStr(ParamCallers(analysis, other_name)[1].name))

\* the passes with the parameter-name pass tried before the naming-convention
\* pass: the order lines 897-959 exclude
PairEdgesParamFirst(analysis, code, other_name) ==
    IF Contains(code, other_name)
    THEN {<<ReferenceEdge(analysis, code, other_name)>>}
    ELSE IF ParamCallers(analysis, other_name) # <<>>
    THEN {<<ParamEdge(analysis, other_name)>>}
    ELSE IF MatchingVariants(Lower(code), other_name) # {}
    THEN {<<ConventionEdge(analysis, other_name, variant)>> :
             variant \in MatchingVariants(Lower(code), other_name)}
    ELSE {<<>>}

\* the edges one iteration of the inner loop may append for the pair
\* (analysis of code, other_name), one per order of the variants
PairEdges(analysis, code, other_name) ==
    IF Contains(code, other_name)
    THEN {<<ReferenceEdge(analysis, code, other_name)>>}
    ELSE IF MatchingVariants(Lower(code), other_name) # {}
    THEN {<<ConventionEdge(analysis, other_name, variant)>> :
             variant \in MatchingVariants(Lower(code), other_name)}
    ELSE IF ParamCallers(analysis, other_name) # <<>>
    THEN {<<ParamEdge(analysis, other_name)>>}
    ELSE {<<>>}

\* a count of the edges that arrive at name instead of those that leave it: the
\* fault of incrementing at line 967 instead of line 970
IncomingCount(edges, name) ==
    Cardinality({k \in 1..Len(edges) : edges[k].to_contract = name})

\* dependency_count[name]: the edges whose from_contract is name; the tests of
\* lines 966 and 969 pass for every edge, whose to_contract and from_contract
\* are entries of contract_names, unless the name is the empty string
DependencyCount(edges, name) ==
    Cardinality({k \in 1..Len(edges) :
                    /\ edges[k].to_contract # <<>>
                    /\ edges[k].from_contract # <<>>
                    /\ edges[k].from_contract = name})

\* the order of the input list, unsorted
DeploymentOrderAsGiven(names, edges) == names

\* sorted(contract_names, key=dependency_count.get): stable, ascending
DeploymentOrder(names, edges) ==
    Concat([c \in 1..(Len(edges) + 1) |->
        SelectSeq(names, LAMBDA n : DependencyCount(edges, n) = c - 1)])

\* ------------------------------------------------------------------ source text

t_Counter == <<"C","o","u","n","t","e","r">>
t_count == <<"c","o","u","n","t">>
t_counter == <<"c","o","u","n","t","e","r">>
t_balances == <<"b","a","l","a","n","c","e","s">>
t_increment == <<"i","n","c","r","e","m","e","n","t">>
t_reset == <<"r","e","s","e","t">>
t_missing == <<"m","i","s","s","i","n","g">>
t_amount == <<"a","m","o","u","n","t">>
t_key == <<"k","e","y">>
t_x == <<"x">>
t_0 == <<"0">>
t_1 == <<"1">>
t_2 == <<"2">>
t_plus == <<"+">>
t_percent == <<"%">>
t_eqeq == <<"=","=">>
t_gt == <<">">>
t_log == <<"l","o","g">>
t_self_helper == <<"s","e","l","f",".","h","e","l","p","e","r">>
t_self_missing == <<"s","e","l","f",".","m","i","s","s","i","n","g">>
t_self_increment == <<"s","e","l","f",".","i","n","c","r","e","m","e","n","t">>
t_arc4_emit == <<"a","r","c","4",".","e","m","i","t">>
t_Transfer == <<"T","r","a","n","s","f","e","r">>
t_arc4_abimethod == <<"a","r","c","4",".","a","b","i","m","e","t","h","o","d">>
t_arc4_baremethod == <<"a","r","c","4",".","b","a","r","e","m","e","t","h","o","d">>
t_quoted_require == <<"'","r","e","q","u","i","r","e","'">>
t_is_view == <<"i","s","_","v","i","e","w">>
t_main == <<"m","a","i","n">>
t_make == <<"m","a","k","e">>
t_pass == <<"p","a","s","s">>
t_return_0 == <<"r","e","t","u","r","n"," ","0">>
t_object == <<"o","b","j","e","c","t">>
t_Helper == <<"H","e","l","p","e","r">>
t_sol_require == <<"r","e","q","u","i","r","e","(","m","s","g",".","s","e","n","d","e","r"," ","=","="," ","o","w","n","e","r",")",";">>
t_sol_payable == <<"c","o","n","s","t","r","u","c","t","o","r","(",")"," ","p","a","y","a","b","l","e"," ","{","}">>
t_hash == <<"#"," ">>

Indent(lines) == [i \in 1..Len(lines) |-> t_indent \o lines[i]]

DecoratorLine(dec) ==
    <<"@">> \o dec.name
    \o (IF dec.call
        THEN <<"(">> \o Join([i \in 1..Len(dec.keywords) |->
                          dec.keywords[i][1] \o <<"=">> \o dec.keywords[i][2].src],
                        <<",", " ">>) \o <<")">>
        ELSE <<>>)

DefLine(node) ==
    t_def \o node.name \o <<"(">>
    \o Join([i \in 1..Len(node.args) |->
                node.args[i].written
                \o (IF node.args[i].annotation = <<>> THEN <<>>
                    ELSE <<":", " ">> \o node.args[i].annotation)], <<",", " ">>)
    \o <<")">>
    \o (IF node.returns = <<>> THEN <<>> ELSE t_arrow \o node.returns)
    \o <<":">>

NodeLines(node) ==
    IF node.n = "AnnAssign"
    THEN <<node.name \o <<":", " ">> \o node.annotation
           \o (IF node.value = Nil THEN <<>>
               ELSE <<" ", "=", " ">> \o UnparseExpr(node.value))>>
    ELSE [i \in 1..Len(node.decorator_list) |-> DecoratorLine(node.decorator_list[i])]
         \o <<DefLine(node)>>
         \o Indent([i \in 1..Len(node.body) |-> UnparseStmt(node.body[i])])

ClassLines(c) ==
    LET own == <<t_class \o c.name
                 \o (IF c.bases = <<>> THEN <<>>
                     ELSE <<"(">> \o Join(c.bases, <<",", " ">>) \o <<")">>)
                 \o <<":">>>>
               \o (IF c.body = <<>> THEN <<t_indent \o t_pass>>
                   ELSE Indent(Concat([i \in 1..Len(c.body) |-> NodeLines(c.body[i])])))
    IN  IF c.inside = <<>> THEN own
        ELSE <<t_def \o c.inside \o <<"(", ")", ":">>>> \o Indent(own)

\* the text of a source: its classes (a source without classes holds one free
\* function), its comment line, and the unclosed parenthesis when unbalanced
SourceText(src) ==
    LET lines == (IF src.classes = <<>>
                  THEN <<t_def \o t_main \o <<"(", ")", ":">>, t_indent \o t_return_0>>
                  ELSE Concat([i \in 1..Len(src.classes) |-> ClassLines(src.classes[i])]))
                 \o (IF src.comment = <<>> THEN <<>> ELSE <<t_hash \o src.comment>>)
                 \o (IF src.unbalanced THEN <<<<"(">>>> ELSE <<>>)
    IN  Concat([i \in 1..Len(lines) |-> lines[i] \o <<"\n">>])

\* ------------------------------------------------------------------ inputs

\* the longest member body drawn, in statements
MaxStmts == 2

\* the non-empty sequences over S of length at most n
SeqsUpTo(S, n) == UNION {[1..k -> S] : k \in 1..n}

t_uint64 == <<"u","i","n","t","6","4">>
t_Adds == <<"A","d","d","s"," ","a","m","o","u","n","t">>

\* self.<name> = <value> in __init__
sv_count == Assign(Attr(t_count), Call(t_UInt64, <<Num(t_0)>>))
sv_counter == Assign(Attr(t_counter), Call(t_UInt64, <<Num(t_0)>>))
sv_balances == Assign(Attr(t_balances), Call(t_BoxMap, <<Name(t_Account), Name(t_UInt64)>>))

InitDef(stmts) == FunctionDef(t_init, <<>>, <<Arg(t_selfarg, <<>>)>>, t_None, stmts)
Member(name, decs, body) ==
    FunctionDef(name, decs, <<Arg(t_selfarg, <<>>), Arg(t_amount, t_UInt64)>>, t_None, body)
CounterClass(init, members) ==
    ClassDef(t_Counter, <<t_ARC4Contract>>, <<>>, <<InitDef(init)>> \o members)

\* statements
st_aug == AugAssign(Attr(t_count), t_plus, Num(t_1))
st_aug_mod == AugAssign(Attr(t_count), t_percent, Num(t_2))
st_aug_value == AugAssign(Value(t_count), t_plus, Num(t_1))
st_assign == Assign(Attr(t_count), Name(t_amount))
st_assign_value == Assign(Value(t_count), Name(t_amount))
st_return == Return(Attr(t_count))
st_return_counter == Return(Attr(t_counter))
st_assert_eq == AssertStmt(Bin(Attr(t_count), t_eqeq, Num(t_0)))
st_log == ExprStmt(Call(t_log, <<Attr(t_count)>>))
st_map_write == Assign(Sub(t_balances, Name(t_key)), Name(t_amount))
st_map_read == Assign(Name(t_x), Sub(t_balances, Name(t_key)))
st_assert == AssertStmt(Bin(Name(t_amount), t_gt, Num(t_0)))
st_err == ExprStmt(Call(t_op_err, <<>>))
st_payment == ExprStmt(Call(t_itxn_Payment, <<Name(t_amount)>>))
st_call_helper == ExprStmt(Call(t_self_helper, <<>>))
st_call_increment == ExprStmt(Call(t_self_increment, <<>>))
st_call_missing == ExprStmt(Call(t_self_missing, <<>>))
st_emit == ExprStmt(Call(t_arc4_emit, <<Call(t_Transfer, <<Name(t_amount)>>)>>))

\* decorator lists
dec_abimethod == <<Decorator(t_arc4_abimethod)>>
dec_readonly ==
    <<DecoratorCall(t_arc4_abimethod, <<<<t_readonly, KwLiteral(t_True, PyBool(TRUE))>>>>)>>
dec_readonly_expr ==
    <<DecoratorCall(t_arc4_abimethod, <<<<t_readonly, KwExpression(t_is_view)>>>>)>>
dec_create ==
    <<DecoratorCall(t_arc4_baremethod,
                    <<<<t_create, KwLiteral(t_quoted_require, PyStr(t_require))>>>>)>>
dec_subroutine == <<Decorator(t_subroutine)>>
dec_none == <<>>
\* both markers, the subroutine one first
dec_both == <<Decorator(t_subroutine), Decorator(t_arc4_abimethod)>>

\* interface specifications
arc_increment ==
    PyDict(<< <<t_name, PyStr(t_increment)>>,
              <<t_args, PyList(<<PyDict(<< <<t_type, PyStr(t_uint64)>>,
                                           <<t_name, PyStr(t_amount)>> >>)>>)>>,
              <<t_returns, PyDict(<< <<t_type, PyStr(t_void)>> >>)>>,
              <<t_desc, PyStr(t_Adds)>> >>)
arc32_valid == PyDict(<< <<t_methods, PyList(<<arc_increment>>)>> >>)
arc32_nested ==
    PyDict(<< <<t_contract, PyDict(<< <<t_methods, PyList(<<arc_increment>>)>> >>)>> >>)
arc32_other_name ==
    PyDict(<< <<t_methods, PyList(<<DictSet(arc_increment, t_name, PyStr(t_helper))>>)>> >>)
arc32_bare == PyDict(<< <<t_methods, PyList(<<PyDict(<< <<t_name, PyStr(t_increment)>> >>)>>)>> >>)
arc32_returns_null ==
    PyDict(<< <<t_methods, PyList(<<DictSet(arc_increment, t_returns, PyNone)>>)>> >>)
arc32_args_text ==
    PyDict(<< <<t_methods,
                PyList(<<DictSet(arc_increment, t_args, PyList(<<PyStr(t_uint64)>>))>>)>> >>)
arc32_methods_number == PyDict(<< <<t_methods, PyInt(5)>> >>)

Arc32Shapes ==
    {PyNone, PyDict(<<>>), arc32_valid, arc32_nested, arc32_other_name, arc32_bare,
     arc32_returns_null, arc32_args_text, arc32_methods_number}

\* original (Solidity) sources; both satisfy NoDeclarations
SolidityCodes == {PyNone, PyStr(t_sol_require), PyStr(t_sol_payable)}

Input(code, arc32, sol) == [code |-> code, arc32 |-> arc32, sol |-> sol]

\* one entry point over the fields count and counter; its body varies
AccessStmts ==
    {st_aug, st_aug_mod, st_aug_value, st_assign, st_assign_value, st_return,
     st_return_counter, st_assert_eq, st_log}
AccessInputs ==
    {Input(Source(<<CounterClass(<<sv_count, sv_counter>>,
                                 <<Member(t_increment, dec_abimethod, body)>>)>>,
                  FALSE, <<>>),
           PyNone, PyNone) : body \in SeqsUpTo(AccessStmts, MaxStmts)}

\* a keyed map beside count
MapStmts == {st_aug, st_return, st_map_write, st_map_read}
MapInputs ==
    {Input(Source(<<CounterClass(<<sv_count, sv_balances>>,
                                 <<Member(t_increment, dec_abimethod, body)>>)>>,
                  FALSE, <<>>),
           PyNone, PyNone) : body \in SeqsUpTo(MapStmts, MaxStmts)}

\* the single field count and the single entry point increment
CounterStmts == {st_aug, st_aug_mod, st_aug_value, st_assign, st_return, st_assert}
CounterInputs ==
    {Input(Source(<<CounterClass(<<sv_count>>,
                                 <<Member(t_increment, dec_abimethod, body)>>)>>,
                  FALSE, <<>>),
           PyNone, PyNone) : body \in SeqsUpTo(CounterStmts, MaxStmts)}

\* two members, each with any marker and behaviour
MemberDecs ==
    {dec_abimethod, dec_readonly, dec_readonly_expr, dec_create, dec_subroutine, dec_none,
     dec_both}
MemberBodies ==
    {<<st_aug>>, <<st_assert, st_aug>>, <<st_err>>, <<st_payment>>,
     <<st_assert, st_payment>>, <<st_call_helper>>, <<st_call_missing>>, <<st_emit>>}
HelperDecs == {dec_abimethod, dec_readonly, dec_subroutine, dec_none}
HelperBodies == {<<st_assert>>, <<st_payment>>, <<st_call_increment>>, <<st_emit>>}
MemberInputs ==
    {Input(Source(<<CounterClass(<<sv_count>>,
                                 <<Member(t_increment, d1, b1), Member(t_helper, d2, b2)>>)>>,
                  FALSE, <<>>),
           PyNone, PyNone) :
        d1 \in MemberDecs, b1 \in MemberBodies, d2 \in HelperDecs, b2 \in HelperBodies}

\* sources that do not parse, hold no class, or hold several
src_counter ==
    Source(<<CounterClass(<<sv_count>>,
                          <<Member(t_increment, dec_abimethod, <<st_aug>>),
                            Member(t_helper, dec_subroutine, <<st_assert>>)>>)>>,
           FALSE, <<>>)
src_unbalanced == [src_counter EXCEPT !.unbalanced = TRUE]
src_free_function == Source(<<>>, FALSE, <<>>)
src_plain_class ==
    Source(<<ClassDef(t_Helper, <<>>, <<>>,
                      <<Member(t_reset, dec_none, <<st_assert>>)>>)>>, FALSE, <<>>)
src_two_classes ==
    Source(<<ClassDef(t_Helper, <<t_object>>, <<>>,
                      <<Member(t_reset, dec_none, <<st_assert>>)>>)>>
           \o src_counter.classes, FALSE, <<>>)
src_nested_class ==
    Source(<<ClassDef(t_Helper, <<>>, t_make, <<Member(t_reset, dec_none, <<st_assert>>)>>)>>,
           FALSE, <<>>)
\* a top-level class without base, then a function that declares a class with
\* the base ARC4Contract
src_nested_contract ==
    Source(<<ClassDef(t_Helper, <<>>, <<>>, <<Member(t_reset, dec_none, <<st_assert>>)>>),
             ClassDef(t_Counter, <<t_ARC4Contract>>, t_make,
                      <<InitDef(<<sv_count>>),
                        Member(t_increment, dec_abimethod, <<st_aug>>)>>)>>,
           FALSE, <<>>)
ShapeSources ==
    {src_counter, src_unbalanced, src_free_function, src_plain_class, src_two_classes,
     src_nested_class, src_nested_contract}
ShapeInputs ==
    {Input(code, arc32, sol) :
        code \in ShapeSources, arc32 \in Arc32Shapes, sol \in SolidityCodes}

\* an initializer of up to MaxStmts assignments, some of them to the same
\* attribute, with each recognised constructor on the right-hand side
t_BigUInt == <<"B","i","g","U","I","n","t">>
t_algopy_UInt64 == <<"a","l","g","o","p","y",".","U","I","n","t","6","4">>
sv_count_account == Assign(Attr(t_count), Call(t_Account, <<>>))
sv_count_bool == Assign(Attr(t_count), Call(t_Bool, <<>>))
sv_count_string == Assign(Attr(t_count), Call(t_String, <<>>))
sv_count_bytes == Assign(Attr(t_count), Call(t_Bytes, <<>>))
sv_count_big == Assign(Attr(t_count), Call(t_BigUInt, <<Num(t_0)>>))
sv_count_qualified == Assign(Attr(t_count), Call(t_algopy_UInt64, <<Num(t_1)>>))
sv_count_local == Assign(Attr(t_count), Call(t_LocalState, <<Name(t_UInt64)>>))
sv_count_amount == Assign(Attr(t_count), Name(t_amount))
sv_count_call == Assign(Attr(t_count), Call(t_log, <<Name(t_amount)>>))
DeclStmts ==
    {sv_count, sv_counter, sv_balances, sv_count_account, sv_count_bool, sv_count_string,
     sv_count_bytes, sv_count_big, sv_count_qualified, sv_count_local, sv_count_amount,
     sv_count_call}
DeclInputs ==
    {Input(Source(<<CounterClass(init, <<Member(t_increment, dec_abimethod, <<st_aug>>)>>)>>,
                  FALSE, <<>>),
           PyNone, PyNone) : init \in SeqsUpTo(DeclStmts, MaxStmts)}

\* one entry point whose body holds guards and calls of other functions
t_op_btoi == <<"o","p",".","b","t","o","i">>
t_op_error == <<"o","p",".","e","r","r","o","r">>
st_exit == ExprStmt(Call(t_op_exit, <<Num(t_0)>>))
st_btoi == ExprStmt(Call(t_op_btoi, <<Name(t_amount)>>))
st_op_error == ExprStmt(Call(t_op_error, <<Name(t_amount)>>))
GuardStmts == {st_assert, st_err, st_exit, st_btoi, st_op_error, st_log, st_payment}
GuardInputs ==
    {Input(Source(<<CounterClass(<<sv_count>>,
                                 <<Member(t_increment, dec_abimethod, body)>>)>>,
                  FALSE, <<>>),
           PyNone, PyNone) : body \in SeqsUpTo(GuardStmts, MaxStmts)}

Inputs ==
    AccessInputs \cup MapInputs \cup CounterInputs \cup MemberInputs \cup ShapeInputs
        \cup DeclInputs \cup GuardInputs

\* ------------------------------------------------------------------ state

VARIABLES
    algopy_code,            \* analyze_contract: the source analysed
    arc32_json,             \* its interface specification, or None
    solidity_code,          \* its original source, or None
    pc,                     \* the position reached in analyze_contract
    tree,                   \* <<ast.parse result>> once parsed
    contract_cls,           \* <<the class chosen>> once found
    state_variables,
    state_var_names,        \* the set of names
    iteration,              \* the order in which this call iterates state_var_names
    methods,
    subroutines,
    call_graph,
    storage_access_map,
    inner_txn_map,
    events_list,
    result,                 \* <<the dict returned>> once returned
    prior,                  \* <<the dict an earlier call on the same input returned>>
    contracts,              \* analyze_multi_contract: the input list
    mpc,                    \* the position reached in analyze_multi_contract
    analyses,
    contract_names,
    inter_contract_edges,
    i,                      \* index of the outer loop in progress
    j,                      \* index of the inner loop in progress
    multi_result,           \* <<the dict returned>> once returned
    running,                \* concurrent calls: the thread holding the interpreter
    suspended,              \* the locals of the call of the thread that waits
    passed,                 \* the argument objects as the callers passed them
    schema_source,          \* _compute_state_schema: the source whose text is code
    code_lines,             \* code.split("\n")
    line_index,             \* the index of the line the loop is at
    in_init,
    global_ints,
    global_bytes,
    local_ints,
    local_bytes,
    schema                  \* <<the dict returned>> once returned

single_vars ==
    <<algopy_code, arc32_json, solidity_code, pc, tree, contract_cls, state_variables,
      state_var_names, iteration, methods, subroutines, call_graph, storage_access_map,
      inner_txn_map, events_list, result, prior>>
multi_vars ==
    <<contracts, mpc, analyses, contract_names, inter_contract_edges, i, j, multi_result>>
conc_vars == <<running, suspended, passed>>
schema_vars ==
    <<schema_source, code_lines, line_index, in_init, global_ints, global_bytes, local_ints, local_bytes, schema>>
other_vars == <<conc_vars, schema_vars>>
vars == <<single_vars, multi_vars, conc_vars, schema_vars>>

\* the locals of a call of analyze_contract before its first statement
EntryOfCall ==
    /\ pc = "parse"
    /\ tree = <<>>
    /\ contract_cls = <<>>
    /\ state_variables = <<>>
    /\ state_var_names = {}
    /\ iteration = <<>>
    /\ methods = <<>>
    /\ subroutines = <<>>
    /\ call_graph = <<>>
    /\ storage_access_map = <<>>
    /\ inner_txn_map = <<>>
    /\ events_list = <<>>
    /\ result = <<>>

MultiIdle ==
    /\ contracts = <<>>
    /\ mpc = "idle"
    /\ analyses = <<>>
    /\ contract_names = <<>>
    /\ inter_contract_edges = <<>>
    /\ i = 0
    /\ j = 0
    /\ multi_result = <<>>

\* no second thread
ConcurrentIdle ==
    /\ running = 0
    /\ suspended = <<>>
    /\ passed = <<>>

\* no call of _compute_state_schema
SchemaIdle ==
    /\ schema_source = <<>>
    /\ code_lines = <<>>
    /\ line_index = 0
    /\ in_init = FALSE
    /\ global_ints = 0
    /\ global_bytes = 0
    /\ local_ints = 0
    /\ local_bytes = 0
    /\ schema = <<>>

\* a call analyze_contract(algopy_code, arc32_json, solidity_code)
Init ==
    /\ \E inp \in Inputs :
          /\ algopy_code = inp.code
          /\ arc32_json = inp.arc32
          /\ solidity_code = inp.sol
    /\ EntryOfCall
    /\ prior = <<>>
    /\ MultiIdle
    /\ ConcurrentIdle
    /\ SchemaIdle

\* ------------------------------------------------------------------ analyze_contract, step by step

\* lines 525-542: parse, or return the degraded result on SyntaxError
ParseStep ==
    /\ pc = "parse"
    /\ LET parsed == Parse(algopy_code)
       IN  IF parsed.ok
           THEN /\ tree' = <<parsed>>
                /\ pc' = "find"
                /\ UNCHANGED result
           ELSE /\ result' = <<SyntaxErrorResult(parsed)>>
                /\ pc' = "done"
                /\ UNCHANGED tree
    /\ UNCHANGED <<algopy_code, arc32_json, solidity_code, contract_cls, state_variables,
                   state_var_names, iteration, methods, subroutines, call_graph,
                   storage_access_map, inner_txn_map, events_list, prior, multi_vars,
                   other_vars>>

\* lines 544-581: choose the contract class, or return the degraded result
FindClass ==
    /\ pc = "find"
    /\ LET contract_classes == ContractClasses(tree[1].classes)
       IN  IF contract_classes = <<>>
           THEN /\ result' = <<NoClassResult>>
                /\ pc' = "done"
                /\ UNCHANGED contract_cls
           ELSE /\ contract_cls' = <<contract_classes[1]>>
                /\ pc' = "state"
                /\ UNCHANGED result
    /\ UNCHANGED <<algopy_code, arc32_json, solidity_code, tree, state_variables,
                   state_var_names, iteration, methods, subroutines, call_graph,
                   storage_access_map, inner_txn_map, events_list, prior, multi_vars,
                   other_vars>>

\* lines 583-632: state variables; the set state_var_names gets the iteration
\* order this process gives it
StateVars ==
    /\ pc = "state"
    /\ state_variables' = ExtractStateVariables(contract_cls[1])
    /\ state_var_names' = StateVarNames(state_variables')
    /\ iteration' \in Orders(state_var_names')
    /\ pc' = "members"
    /\ UNCHANGED <<algopy_code, arc32_json, solidity_code, tree, contract_cls, methods,
                   subroutines, call_graph, storage_access_map, inner_txn_map,
                   events_list, result, prior, multi_vars, other_vars>>

\* lines 634-730: methods and subroutines
Members ==
    /\ pc = "members"
    /\ methods' = ExtractMethods(contract_cls[1], iteration)
    /\ subroutines' = ExtractSubroutines(contract_cls[1], iteration)
    /\ pc' = "graphs"
    /\ UNCHANGED <<algopy_code, arc32_json, solidity_code, tree, contract_cls,
                   state_variables, state_var_names, iteration, call_graph,
                   storage_access_map, inner_txn_map, events_list, result, prior,
                   multi_vars, other_vars>>

\* lines 732-775: call graph, storage access map, inner txn map, events
Graphs ==
    /\ pc = "graphs"
    /\ call_graph' = BuildCallGraph(methods, subroutines)
    /\ storage_access_map' = BuildStorageAccessMap(methods, subroutines)
    /\ inner_txn_map' = BuildInnerTxnMap(methods, subroutines)
    /\ events_list' = BuildEvents(methods, subroutines)
    /\ pc' = "arc32"
    /\ UNCHANGED <<algopy_code, arc32_json, solidity_code, tree, contract_cls,
                   state_variables, state_var_names, iteration, methods, subroutines,
                   result, prior, multi_vars, other_vars>>

\* lines 777-798: ARC-32 cross-reference; an exception raised here is caught
\* nowhere and leaves the call
CrossRef ==
    /\ pc = "arc32"
    /\ LET xref == CrossReference(methods, arc32_json)
       IN  IF xref.raised
           THEN /\ pc' = "raised"
                /\ UNCHANGED methods
           ELSE /\ methods' = xref.methods
                /\ pc' = "finish"
    /\ UNCHANGED <<algopy_code, arc32_json, solidity_code, tree, contract_cls,
                   state_variables, state_var_names, iteration, subroutines, call_graph,
                   storage_access_map, inner_txn_map, events_list, result, prior,
                   multi_vars, other_vars>>

\* lines 800-821: security notes, Solidity mapping, return
Finish ==
    /\ pc = "finish"
    /\ result' = <<ResultDict(contract_cls[1].name, state_variables, methods, subroutines,
                              call_graph, storage_access_map, inner_txn_map, events_list,
                              _generate_security_notes(methods, subroutines),
                              IF Truthy(solidity_code)
                              THEN _build_solidity_mapping(solidity_code.s, algopy_code)
                              ELSE <<>>,
                              <<>>)>>
    /\ pc' = "done"
    /\ UNCHANGED <<algopy_code, arc32_json, solidity_code, tree, contract_cls,
                   state_variables, state_var_names, iteration, methods, subroutines,
                   call_graph, storage_access_map, inner_txn_map, events_list, prior,
                   multi_vars, other_vars>>

\* the caller keeps the dict returned and calls analyze_contract again on the
\* same arguments
Rerun ==
    /\ pc = "done"
    /\ prior = <<>>
    /\ prior' = result
    /\ pc' = "parse"
    /\ tree' = <<>>
    /\ contract_cls' = <<>>
    /\ state_variables' = <<>>
    /\ state_var_names' = {}
    /\ iteration' = <<>>
    /\ methods' = <<>>
    /\ subroutines' = <<>>
    /\ call_graph' = <<>>
    /\ storage_access_map' = <<>>
    /\ inner_txn_map' = <<>>
    /\ events_list' = <<>>
    /\ result' = <<>>
    /\ UNCHANGED <<algopy_code, arc32_json, solidity_code, multi_vars, other_vars>>

Next ==
    \/ ParseStep
    \/ FindClass
    \/ StateVars
    \/ Members
    \/ Graphs
    \/ CrossRef
    \/ Finish
    \/ Rerun

Spec == Init /\ [][Next]_vars

\* ------------------------------------------------------------------ analyze_multi_contract: inputs

\* the longest input list drawn
MaxContracts == 3

sv_vault_app_id == Assign(Attr(t_vault_app_id), Call(t_UInt64, <<Num(t_0)>>))
st_call_token == ExprStmt(Call(t_itxn_ApplicationCall, <<Name(t_Token)>>))
st_call_vault == ExprStmt(Call(t_itxn_ApplicationCall, <<Attr(t_vault_app_id)>>))

ContractSource(name, init, body, comment) ==
    Source(<<ClassDef(name, <<t_ARC4Contract>>, <<>>,
                      <<InitDef(init), Member(t_increment, dec_abimethod, body)>>)>>,
           FALSE, comment)

\* Token refers to no other contract
c_token == Contract(PyStr(t_Token), ContractSource(t_Token, <<sv_count>>, <<st_aug>>, <<>>),
                    PyNone, PyNone)
\* Vault names Token and issues an application call
c_vault == Contract(PyStr(t_Vault),
                    ContractSource(t_Vault, <<sv_count>>, <<st_call_token>>, <<>>),
                    PyNone, PyNone)
\* Market holds vault_app_id and issues an application call on it
c_market == Contract(PyStr(t_Market),
                     ContractSource(t_Market, <<sv_vault_app_id>>, <<st_call_vault>>, <<>>),
                     arc32_valid, PyNone)
\* Token with a comment naming Vault
c_token_back == Contract(PyStr(t_Token),
                         ContractSource(t_Token, <<sv_count>>, <<st_aug>>, t_Vault),
                         PyNone, PyNone)
\* an entry without a name: the class name Counter is kept
c_unnamed == Contract(PyNone, src_counter, PyNone, PyStr(t_sol_require))
\* Vault as c_vault, with an unclosed parenthesis
c_vault_unbalanced ==
    Contract(PyStr(t_Vault),
             [ContractSource(t_Vault, <<sv_count>>, <<st_call_token>>, <<>>)
                 EXCEPT !.unbalanced = TRUE],
             PyNone, PyNone)
\* Token with an interface specification whose methods is a number
c_token_bad_spec == [c_token EXCEPT !.arc32_json = arc32_methods_number]

\* Router holds vault_app_id; its first entry point issues an application call
\* on its parameter, its second one takes token_id and issues one on vault_app_id
t_Router == <<"R","o","u","t","e","r">>
t_Holder == <<"H","o","l","d","e","r">>
t_token_id == <<"t","o","k","e","n","_","i","d">>
st_call_amount == ExprStmt(Call(t_itxn_ApplicationCall, <<Name(t_amount)>>))
c_router ==
    Contract(PyStr(t_Router),
             Source(<<ClassDef(t_Router, <<t_ARC4Contract>>, <<>>,
                               <<InitDef(<<sv_vault_app_id>>),
                                 Member(t_increment, dec_abimethod, <<st_call_amount>>),
                                 FunctionDef(t_reset, dec_abimethod,
                                             <<Arg(t_selfarg, <<>>), Arg(t_token_id, t_UInt64)>>,
                                             t_None, <<st_call_vault>>)>>)>>,
                    FALSE, <<>>),
             PyNone, PyNone)
\* Holder holds vault_app_id and issues no application call
c_holder == Contract(PyStr(t_Holder),
                     ContractSource(t_Holder, <<sv_vault_app_id>>, <<st_aug>>, <<>>),
                     PyNone, PyNone)

\* Sender issues an application call in both entry points; the second one
\* takes a parameter written with U+FF54 for its first letter, which the
\* parser stores as token_id
t_Sender == <<"S","e","n","d","e","r">>
t_wide_token_id == <<FullwidthT,"o","k","e","n","_","i","d">>
c_sender ==
    Contract(PyStr(t_Sender),
             Source(<<ClassDef(t_Sender, <<t_ARC4Contract>>, <<>>,
                               <<InitDef(<<sv_count>>),
                                 Member(t_increment, dec_abimethod, <<st_call_amount>>),
                                 FunctionDef(t_reset, dec_abimethod,
                                             <<Arg(t_selfarg, <<>>),
                                               Arg(t_wide_token_id, t_UInt64)>>,
                                             t_None, <<st_call_amount>>)>>)>>,
                    FALSE, <<>>),
             PyNone, PyNone)

ContractCatalogue ==
    {c_token, c_vault, c_market, c_token_back, c_unnamed, c_vault_unbalanced,
     c_token_bad_spec}

\* the contracts that refer to one another by naming convention or by the name
\* of a parameter
ConventionCatalogue == {c_token, c_vault, c_router, c_holder, c_sender}

\* the lists of at most MaxContracts distinct entries of S
ListsOver(S) ==
    {cs \in UNION {[1..k -> S] : k \in 0..MaxContracts} :
        \A a, b \in DOMAIN cs : a # b => cs[a] # cs[b]}

\* the lists of at most MaxContracts distinct entries of one catalogue
ContractLists == ListsOver(ContractCatalogue) \cup ListsOver(ConventionCatalogue)

\* ------------------------------------------------------------------ analyze_multi_contract, step by step

\* a call analyze_multi_contract(contracts)
InitMulti ==
    /\ contracts \in ContractLists
    /\ mpc = IF contracts = <<>> THEN "order" ELSE "analyze"
    /\ analyses = <<>>
    /\ contract_names = <<>>
    /\ inter_contract_edges = <<>>
    /\ i = 1
    /\ j = 1
    /\ multi_result = <<>>
    /\ algopy_code = Source(<<>>, FALSE, <<>>)
    /\ arc32_json = PyNone
    /\ solidity_code = PyNone
    /\ pc = "idle"
    /\ tree = <<>>
    /\ contract_cls = <<>>
    /\ state_variables = <<>>
    /\ state_var_names = {}
    /\ iteration = <<>>
    /\ methods = <<>>
    /\ subroutines = <<>>
    /\ call_graph = <<>>
    /\ storage_access_map = <<>>
    /\ inner_txn_map = <<>>
    /\ events_list = <<>>
    /\ result = <<>>
    /\ prior = <<>>
    /\ ConcurrentIdle
    /\ SchemaIdle

\* lines 848-852: the call analyze_contract(c.get("algopy_code", ""),
\* c.get("arc32_json"), c.get("solidity_code")) of the iteration for contracts[i]
CallAnalyze ==
    /\ mpc = "analyze"
    /\ pc = "idle"
    /\ algopy_code' = contracts[i].algopy_code
    /\ arc32_json' = contracts[i].arc32_json
    /\ solidity_code' = contracts[i].solidity_code
    /\ pc' = "parse"
    /\ UNCHANGED <<tree, contract_cls, state_variables, state_var_names, iteration,
                   methods, subroutines, call_graph, storage_access_map, inner_txn_map,
                   events_list, result, prior, multi_vars, other_vars>>

\* the rest of the iteration without the override of lines 855-856: the
\* analysis keeps the contract_name analyze_contract gave it
CollectAnalysisKeepingClassName ==
    /\ mpc = "analyze"
    /\ pc \in {"done", "raised"}
    /\ IF pc = "raised"
       THEN /\ mpc' = "raised"
            /\ UNCHANGED <<analyses, contract_names, i>>
       ELSE /\ analyses' = Append(analyses, result[1])
            /\ contract_names' = Append(contract_names, analyses'[i].contract_name)
            /\ i' = IF i < Len(contracts) THEN i + 1 ELSE 1
            /\ mpc' = IF i < Len(contracts) THEN "analyze" ELSE "edges"
    /\ pc' = "idle"
    /\ tree' = <<>>
    /\ contract_cls' = <<>>
    /\ state_variables' = <<>>
    /\ state_var_names' = {}
    /\ iteration' = <<>>
    /\ methods' = <<>>
    /\ subroutines' = <<>>
    /\ call_graph' = <<>>
    /\ storage_access_map' = <<>>
    /\ inner_txn_map' = <<>>
    /\ events_list' = <<>>
    /\ result' = <<>>
    /\ UNCHANGED <<algopy_code, arc32_json, solidity_code, prior, contracts,
                   inter_contract_edges, j, multi_result, other_vars>>

\* lines 853-858: the rest of the iteration once analyze_contract has returned;
\* an exception it raised leaves analyze_multi_contract as well
CollectAnalysis ==
    /\ mpc = "analyze"
    /\ pc \in {"done", "raised"}
    /\ IF pc = "raised"
       THEN /\ mpc' = "raised"
            /\ UNCHANGED <<analyses, contract_names, i>>
       ELSE /\ analyses' = Append(analyses,
                              IF Truthy(contracts[i].name)
                              THEN [result[1] EXCEPT !.contract_name = contracts[i].name.s]
                              ELSE result[1])
            /\ contract_names' = Append(contract_names, analyses'[i].contract_name)
            /\ i' = IF i < Len(contracts) THEN i + 1 ELSE 1
            /\ mpc' = IF i < Len(contracts) THEN "analyze" ELSE "edges"
    /\ pc' = "idle"
    /\ tree' = <<>>
    /\ contract_cls' = <<>>
    /\ state_variables' = <<>>
    /\ state_var_names' = {}
    /\ iteration' = <<>>
    /\ methods' = <<>>
    /\ subroutines' = <<>>
    /\ call_graph' = <<>>
    /\ storage_access_map' = <<>>
    /\ inner_txn_map' = <<>>
    /\ events_list' = <<>>
    /\ result' = <<>>
    /\ UNCHANGED <<algopy_code, arc32_json, solidity_code, prior, contracts,
                   inter_contract_edges, j, multi_result, other_vars>>

\* lines 873-959: one iteration of the inner loop, for the pair (i, j)
EdgeStep ==
    /\ mpc = "edges"
    /\ \E code \in {SourceText(contracts[i].algopy_code)} :
          \E found \in IF i = j THEN {<<>>}
                       ELSE PairEdges(analyses[i], code, contract_names[j]) :
              inter_contract_edges' = inter_contract_edges \o found
    /\ j' = IF j < Len(contract_names) THEN j + 1 ELSE 1
    /\ i' = IF j < Len(contract_names) THEN i
            ELSE IF i < Len(analyses) THEN i + 1 ELSE 1
    /\ mpc' = IF j < Len(contract_names) \/ i < Len(analyses) THEN "edges" ELSE "order"
    /\ UNCHANGED <<contracts, analyses, contract_names, multi_result, single_vars, other_vars>>

\* lines 961-978: deployment order and return
OrderStep ==
    /\ mpc = "order"
    /\ multi_result' =
          <<[contracts |-> analyses,
             inter_contract_edges |-> inter_contract_edges,
             deployment_order |-> DeploymentOrder(contract_names, inter_contract_edges)]>>
    /\ mpc' = "done"
    /\ UNCHANGED <<contracts, analyses, contract_names, inter_contract_edges, i, j,
                   single_vars, other_vars>>

NextMulti ==
    \/ CallAnalyze
    \/ ParseStep
    \/ FindClass
    \/ StateVars
    \/ Members
    \/ Graphs
    \/ CrossRef
    \/ Finish
    \/ CollectAnalysis
    \/ EdgeStep
    \/ OrderStep

SpecMulti == InitMulti /\ [][NextMulti]_vars

\* ------------------------------------------------------------------ properties

\* the nine structural lists of a result
StructuralLists(r) ==
    <<r.state_variables, r.methods, r.subroutines, r.call_graph, r.storage_access_map,
      r.inner_txn_map, r.events, r.security_notes, r.solidity_mapping>>

AllListsEmpty(r) == \A k \in 1..Len(StructuralLists(r)) : StructuralLists(r)[k] = <<>>

Returned == pc = "done"

\* C1: no exception ever escapes analyze_contract or analyze_multi_contract;
\* every call ends by returning a result
C1_NoExceptionEscapes == pc # "raised" /\ mpc # "raised"

\* C2: when the source fails to parse, the result has exactly one error, of the
\* form "Syntax error: ...", and every structural list is empty, whatever
\* interface specification or original source was supplied
C2_SyntaxErrorShortCircuits ==
    Returned /\ algopy_code.unbalanced =>
        /\ Len(result[1].errors) = 1
        /\ IsAt(result[1].errors[1], 1, t_SyntaxErrorPrefix)
        /\ AllListsEmpty(result[1])

C2_Witness ==
    /\ Returned
    /\ algopy_code.unbalanced
    /\ algopy_code.classes # <<>>
    /\ Truthy(arc32_json)
    /\ Truthy(solidity_code)
    /\ result[1].errors # <<>>

\* C3: a source that parses and holds no class at all yields exactly the error
\* "No contract class found in the code." and empty structural lists; and a
\* result without errors describes a class that exists in the source
C3_NoClassDegrades ==
    Returned =>
        /\ ~algopy_code.unbalanced /\ algopy_code.classes = <<>> =>
              /\ result[1].errors = <<t_NoContractClass>>
              /\ AllListsEmpty(result[1])
        /\ result[1].errors = <<>> =>
              \E k \in 1..Len(algopy_code.classes) :
                  /\ contract_cls = <<algopy_code.classes[k]>>
                  /\ result[1].contract_name = algopy_code.classes[k].name

C3_Witness ==
    /\ Returned
    /\ ~algopy_code.unbalanced
    /\ algopy_code.classes = <<>>
    /\ Truthy(solidity_code)
    /\ result[1].errors = <<t_NoContractClass>>

MemberNames(r) ==
    {r.methods[k].name : k \in 1..Len(r.methods)}
        \cup {r.subroutines[k].name : k \in 1..Len(r.subroutines)}

\* C4: in every result the variable of each storage_access_map edge names an
\* entry of state_variables and the 'to' of each call_graph edge names an entry
\* of methods or subroutines
C4_ReferentialIntegrity ==
    Returned =>
        /\ \A k \in 1..Len(result[1].storage_access_map) :
              result[1].storage_access_map[k].variable
                  \in StateVarNames(result[1].state_variables)
        /\ \A k \in 1..Len(result[1].call_graph) :
              result[1].call_graph[k].to \in MemberNames(result[1])

\* a member calls self.missing(), which the class does not define, beside
\* calls and accesses that resolve
C4_Witness ==
    /\ Returned
    /\ \E k \in 1..Len(result[1].methods) :
          t_missing \in Range(result[1].methods[k].calls_methods)
    /\ t_missing \notin MemberNames(result[1])
    /\ result[1].call_graph # <<>>
    /\ \A k \in 1..Len(result[1].call_graph) : result[1].call_graph[k].to # t_missing

\* C5: a second call of analyze_contract on the same arguments returns a result
\* identical to the first, list orders included
C5_Deterministic == Returned /\ prior # <<>> => result = prior

Warned(r) ==
    {r.security_notes[k].method.s :
        k \in {n \in 1..Len(r.security_notes) : r.security_notes[n].type = "warning"}}

\* C6: a warning note names M iff M is an entry of methods that is not readonly
\* and has guards_count 0; no subroutine and no readonly method is named by one
C6_GuardNoteCorrespondence ==
    Returned =>
        /\ \A name \in Warned(result[1]) \cup MemberNames(result[1]) :
              name \in Warned(result[1]) <=>
                  \E k \in 1..Len(result[1].methods) :
                      /\ result[1].methods[k].name = name
                      /\ ~Truthy(result[1].methods[k].is_readonly)
                      /\ result[1].methods[k].guards_count = 0
        /\ \A k \in 1..Len(result[1].subroutines) :
              result[1].subroutines[k].name \notin Warned(result[1])
        /\ \A k \in 1..Len(result[1].methods) :
              Truthy(result[1].methods[k].is_readonly) =>
                  result[1].methods[k].name \notin Warned(result[1])

\* one method is warned about beside a readonly method without guards
C6_Witness ==
    /\ Returned
    /\ Warned(result[1]) # {}
    /\ \E k \in 1..Len(result[1].methods) :
          /\ Truthy(result[1].methods[k].is_readonly)
          /\ result[1].methods[k].guards_count = 0

\* the pairs <<a, b>> with a path of one or more edges from a to b
Paths(edges) ==
    LET step == {<<edges[k].from_contract, edges[k].to_contract>> : k \in 1..Len(edges)}
        F[n \in 1..(Len(edges) + 1)] ==
            IF n = 1 THEN step
            ELSE F[n - 1] \cup {<<x[1][1], x[2][2]>> :
                                   x \in {y \in F[n - 1] \X step : y[1][2] = y[2][1]}}
    IN  F[Len(edges) + 1]

Acyclic(edges) == \A p \in Paths(edges) : p[1] # p[2]

DistinctNames(names) == \A a, b \in 1..Len(names) : names[a] = names[b] => a = b

Position(q, x) == CHOOSE k \in 1..Len(q) : q[k] = x

MultiReturned == mpc = "done"

\* C7: when the edges among the (distinctly named) contracts form no cycle,
\* every edge from A to a different B has B before A in deployment_order
C7_OrderRespectsDependencies ==
    /\ MultiReturned
    /\ DistinctNames(contract_names)
    /\ Acyclic(multi_result[1].inter_contract_edges)
    => \A k \in 1..Len(multi_result[1].inter_contract_edges) :
          LET e == multi_result[1].inter_contract_edges[k]
          IN  Position(multi_result[1].deployment_order, e.to_contract)
                  < Position(multi_result[1].deployment_order, e.from_contract)

\* contracts[a] holds the name of contracts[b] verbatim and itxn.ApplicationCall
NamesAndCalls(a, b) ==
    /\ Contains(SourceText(contracts[a].algopy_code), contract_names[b])
    /\ Contains(SourceText(contracts[a].algopy_code), t_itxn_ApplicationCall)

\* the single ApplicationCall edge from a to b, and b deployed before a
SingleCallEdge(a, b) ==
    /\ multi_result[1].inter_contract_edges
          = <<Edge(contract_names[a], contract_names[b], t_ApplicationCall, PyNone)>>
    /\ multi_result[1].deployment_order = <<contract_names[b], contract_names[a]>>

\* C8 as stated: of two contracts A and B where A's source holds B's name and
\* itxn.ApplicationCall, the edges are exactly the ApplicationCall edge from A
\* to B and B is deployed before A
C8_SingleEdgeAsStated ==
    MultiReturned /\ Len(contracts) = 2 =>
        \A a, b \in 1..2 : a # b /\ NamesAndCalls(a, b) => SingleCallEdge(a, b)

\* no pass of the edge detection matches the source of contracts[b] against
\* the name of contracts[a]
NoPassMatches(b, a) ==
    PairEdges(analyses[b], SourceText(contracts[b].algopy_code), contract_names[a]) = {<<>>}

\* C8: of two contracts A and B with different names where A's source holds B's
\* name and itxn.ApplicationCall and B's source matches no pass against A's
\* name, the edges are exactly the ApplicationCall edge from A to B (without
\* via_method) and B is deployed before A
C8_SingleEdge ==
    MultiReturned /\ Len(contracts) = 2 =>
        \A a, b \in 1..2 :
            /\ a # b
            /\ contract_names[a] # contract_names[b]
            /\ NamesAndCalls(a, b)
            /\ NoPassMatches(b, a)
            => SingleCallEdge(a, b)

\* A comes first in the input list and is deployed second
C8_Witness ==
    /\ MultiReturned
    /\ Len(contracts) = 2
    /\ contract_names[1] # contract_names[2]
    /\ NamesAndCalls(1, 2)
    /\ NoPassMatches(2, 1)
    /\ multi_result[1].deployment_order = <<contract_names[2], contract_names[1]>>

\* the entry of the member declared by node
EntryOf(r, node) ==
    LET members == r.methods \o r.subroutines
    IN  members[CHOOSE k \in 1..Len(members) : members[k].name = node.name]

\* C9: an augmenting assignment to a state variable, directly or through
\* .value, puts the variable in both reads_state and writes_state of the member
C9_AugmentedReadsAndWrites ==
    Returned /\ result[1].errors = <<>> =>
        \A n \in 1..Len(MemberNodes(contract_cls[1])) :
            LET node == MemberNodes(contract_cls[1])[n]
            IN  \A k \in 1..Len(node.body) :
                    /\ node.body[k].k = "AugAssign"
                    /\ node.body[k].t.e \in {"Attr", "Value"}
                    /\ node.body[k].t.s \in StateVarNames(result[1].state_variables)
                    => /\ node.body[k].t.s \in Range(EntryOf(result[1], node).reads_state)
                       /\ node.body[k].t.s \in Range(EntryOf(result[1], node).writes_state)

\* expression x holds a node self.v
RECURSIVE ExprMentions(_, _)
ExprMentions(x, v) ==
    \/ x.e \in {"Attr", "Value", "Sub"} /\ x.s = v
    \/ x.e = "Call" /\ IsAt(x.s, 1, t_self \o v)
                    /\ (Len(x.s) = Len(t_self \o v) \/ x.s[Len(t_self \o v) + 1] = ".")
    \/ \E k \in 1..Len(x.args) : ExprMentions(x.args[k], v)
    \/ \E k \in 1..Len(x.kw) : ExprMentions(x.kw[k][2], v)

\* some member of the class refers to self.v
Referenced(cls, v) ==
    \E n \in 1..Len(MemberNodes(cls)) : \E k \in 1..Len(MemberNodes(cls)[n].body) :
        \/ ExprMentions(MemberNodes(cls)[n].body[k].t, v)
        \/ ExprMentions(MemberNodes(cls)[n].body[k].v, v)

\* C10: a state variable no member refers to is in state_variables and in no
\* storage_access_map edge
C10_UnreferencedHasNoEdge ==
    Returned /\ result[1].errors = <<>> =>
        \A v \in StateVarNames(result[1].state_variables) :
            ~Referenced(contract_cls[1], v) =>
                \A k \in 1..Len(result[1].storage_access_map) :
                    result[1].storage_access_map[k].variable # v

\* ------------------------------------------------------------------ concurrent calls

\* Two threads of one process: thread 1 runs analyze_multi_contract(contracts),
\* thread 2 runs analyze_contract on its own arguments.  One thread holds the
\* interpreter at a time; the locals of the call of the other one wait in
\* suspended.  The module-level names (_STORAGE_CONSTRUCTORS, _DIRECT_TYPE_MAP,
\* _INNER_TXN_PATTERNS, _INNER_TXN_TYPE_MAP) are assigned once, at import, and
\* no function of the module assigns or updates them: they are definitions
\* here, not variables.

\* the locals of the call of analyze_contract of the running thread
Frame ==
    [algopy_code |-> algopy_code, arc32_json |-> arc32_json,
     solidity_code |-> solidity_code, pc |-> pc, tree |-> tree,
     contract_cls |-> contract_cls, state_variables |-> state_variables,
     state_var_names |-> state_var_names, iteration |-> iteration,
     methods |-> methods, subroutines |-> subroutines, call_graph |-> call_graph,
     storage_access_map |-> storage_access_map, inner_txn_map |-> inner_txn_map,
     events_list |-> events_list, result |-> result]

\* the locals of a call on inp before its first statement
EntryFrame(inp) ==
    [algopy_code |-> inp.code, arc32_json |-> inp.arc32, solidity_code |-> inp.sol,
     pc |-> "parse", tree |-> <<>>, contract_cls |-> <<>>, state_variables |-> <<>>,
     state_var_names |-> {}, iteration |-> <<>>, methods |-> <<>>,
     subroutines |-> <<>>, call_graph |-> <<>>, storage_access_map |-> <<>>,
     inner_txn_map |-> <<>>, events_list |-> <<>>, result |-> <<>>]

\* the fault of keeping the lists methods and subroutines at module level: the
\* thread resumed finds what the other thread left in them
ResumeSharingMembers(waiting, current) ==
    [waiting EXCEPT !.methods = current.methods, !.subroutines = current.subroutines]

\* what a thread finds in its locals when it gets the interpreter back: what it
\* left there (lines 523, 545, 584-585, 635-636, 733, 742, 758, 767: every
\* collection the call fills is created inside the call)
Resume(waiting, current) == waiting

ConcurrentLists == {<<c_vault, c_token>>, <<c_market, c_vault>>, <<c_token_bad_spec>>}
ConcurrentInputs ==
    {Input(src_counter, arc32_valid, PyStr(t_sol_require)),
     Input(src_unbalanced, PyNone, PyNone),
     Input(src_counter, arc32_methods_number, PyNone),
     Input(Source(<<CounterClass(<<sv_count, sv_counter>>,
                                 <<Member(t_increment, dec_abimethod,
                                          <<st_aug, st_return_counter>>)>>)>>,
                  FALSE, <<>>),
           PyNone, PyNone)}

InitConcurrent ==
    /\ passed \in [contracts : ConcurrentLists, input : ConcurrentInputs]
    /\ contracts = passed.contracts
    /\ mpc = "analyze"
    /\ analyses = <<>>
    /\ contract_names = <<>>
    /\ inter_contract_edges = <<>>
    /\ i = 1
    /\ j = 1
    /\ multi_result = <<>>
    /\ running = 1
    /\ suspended = EntryFrame(passed.input)
    /\ algopy_code = Source(<<>>, FALSE, <<>>)
    /\ arc32_json = PyNone
    /\ solidity_code = PyNone
    /\ pc = "idle"
    /\ tree = <<>>
    /\ contract_cls = <<>>
    /\ state_variables = <<>>
    /\ state_var_names = {}
    /\ iteration = <<>>
    /\ methods = <<>>
    /\ subroutines = <<>>
    /\ call_graph = <<>>
    /\ storage_access_map = <<>>
    /\ inner_txn_map = <<>>
    /\ events_list = <<>>
    /\ result = <<>>
    /\ prior = <<>>
    /\ SchemaIdle

\* the thread that waits has not returned yet
Resumable ==
    IF running = 1 THEN suspended.pc \notin {"done", "raised"}
    ELSE mpc \notin {"done", "raised"}

\* the interpreter passes from the running thread to the other one
Switch ==
    /\ running \in {1, 2}
    /\ Resumable
    /\ \E found \in {Resume(suspended, Frame)} :
          /\ algopy_code' = found.algopy_code
          /\ arc32_json' = found.arc32_json
          /\ solidity_code' = found.solidity_code
          /\ pc' = found.pc
          /\ tree' = found.tree
          /\ contract_cls' = found.contract_cls
          /\ state_variables' = found.state_variables
          /\ state_var_names' = found.state_var_names
          /\ iteration' = found.iteration
          /\ methods' = found.methods
          /\ subroutines' = found.subroutines
          /\ call_graph' = found.call_graph
          /\ storage_access_map' = found.storage_access_map
          /\ inner_txn_map' = found.inner_txn_map
          /\ events_list' = found.events_list
          /\ result' = found.result
    /\ suspended' = Frame
    /\ running' = 3 - running
    /\ UNCHANGED <<prior, multi_vars, passed, schema_vars>>

\* a step of analyze_multi_contract outside its call of analyze_contract: taken
\* by thread 1 only
MultiStep ==
    /\ running = 1
    /\ \/ CallAnalyze
       \/ CollectAnalysis
       \/ EdgeStep
       \/ OrderStep

NextConcurrent ==
    \/ Switch
    \/ MultiStep
    \/ ParseStep
    \/ FindClass
    \/ StateVars
    \/ Members
    \/ Graphs
    \/ CrossRef
    \/ Finish

SpecConcurrent == InitConcurrent /\ [][NextConcurrent]_vars

\* the locals of the call of thread 2
SingleFrame == IF running = 2 THEN Frame ELSE suspended
\* the locals of the call analyze_contract of thread 1
SubFrame == IF running = 1 THEN Frame ELSE suspended

\* what analyze_contract returns for c when it runs alone and iterates the set
\* of names in this order, with the name analyze_multi_contract gives it
AloneInList(c, order) ==
    LET alone == AnalyzeContract(c.algopy_code, c.arc32_json, c.solidity_code, order)
    IN  IF Truthy(c.name) /\ ~alone.raised
        THEN [alone EXCEPT !.contract_name = c.name.s]
        ELSE alone

SameName(entries, k) ==
    SelectSeq(entries, LAMBDA e : e.name = entries[k].name)

\* C12: the names in state_variables of a result are pairwise different, and
\* the entry of a name carries the classification of the last assignment to
\* that attribute in source order
C12_StateVariableNamesUnique ==
    (Returned /\ contract_cls # <<>>) =>
        LET svs == result[1].state_variables
            found == ExtractStateVariables(contract_cls[1])
        IN  /\ \A a, b \in 1..Len(svs) : a # b => svs[a].name # svs[b].name
            /\ \A k \in 1..Len(found) :
                  \E a \in 1..Len(svs) :
                      svs[a] = SameName(found, k)[Len(SameName(found, k))]

\* ------------------------------------------------------------------ AIService._compute_state_schema

(***************************************************************************)
(* backend/app/services/ai_service.py, lines 1175-1293.  The function      *)
(* reads the text line by line; a line is a sequence of characters and the *)
(* regular expressions are computed over them.                             *)
(***************************************************************************)

l_class == <<"c","l","a","s","s"," ","E","s","c","r","o","w","(","A","R","C","4","C","o","n","t","r","a","c","t",")",":">>
l_decorator == <<" "," "," "," ","@","a","r","c","4",".","a","b","i","m","e","t","h","o","d">>
l_def_setup == <<" "," "," "," ","d","e","f"," ","s","e","t","u","p","(","s","e","l","f",")"," ","-",">"," ","N","o","n","e",":">>
l_def_init == <<" "," "," "," ","d","e","f"," ","_","_","i","n","i","t","_","_","(","s","e","l","f",")"," ","-",">"," ","N","o","n","e",":">>
l_def_release == <<" "," "," "," ","d","e","f"," ","r","e","l","e","a","s","e","(","s","e","l","f",")"," ","-",">"," ","N","o","n","e",":">>
l_count_uint64 == <<"s","e","l","f",".","c","o","u","n","t"," ","="," ","U","I","n","t","6","4","(","0",")">>
l_owner_account == <<"s","e","l","f",".","o","w","n","e","r"," ","="," ","A","c","c","o","u","n","t","(",")">>
l_name_arc4 == <<"s","e","l","f",".","n","a","m","e"," ","="," ","a","r","c","4",".","S","t","r","i","n","g","(",")">>
l_seller_txn == <<"s","e","l","f",".","s","e","l","l","e","r"," ","="," ","T","x","n",".","s","e","n","d","e","r">>
l_balances_boxmap == <<"s","e","l","f",".","b","a","l","a","n","c","e","s"," ","="," ","B","o","x","M","a","p","(","A","c","c","o","u","n","t",","," ","U","I","n","t","6","4",")">>
l_votes_local == <<"s","e","l","f",".","v","o","t","e","s"," ","="," ","L","o","c","a","l","S","t","a","t","e","(","U","I","n","t","6","4",")">>
l_total_state == <<"s","e","l","f",".","t","o","t","a","l"," ","="," ","G","l","o","b","a","l","S","t","a","t","e","(","U","I","n","t","6","4",")">>
l_comment == <<"#"," ","s","e","l","f",".","c","o","u","n","t"," ","="," ","U","I","n","t","6","4","(","0",")">>
l_pass == <<"p","a","s","s">>
l_count_aug == <<"s","e","l","f",".","c","o","u","n","t"," ","+","="," ","U","I","n","t","6","4","(","1",")">>
t_def_init == <<"d","e","f"," ","_","_","i","n","i","t","_","_">>
t_Txn_dot == <<"T","x","n",".">>
t_op_dot == <<"o","p",".">>
t_BoxMap_open == <<"B","o","x","M","a","p","(">>
t_GlobalState_open == <<"G","l","o","b","a","l","S","t","a","t","e","(">>
t_indent_body == <<" "," "," "," "," "," "," "," ">>
t_arc4_UInt8 == <<"a","r","c","4",".","U","I","n","t","8">>
t_arc4_UInt16 == <<"a","r","c","4",".","U","I","n","t","1","6">>
t_arc4_UInt32 == <<"a","r","c","4",".","U","I","n","t","3","2">>
t_arc4_UInt128 == <<"a","r","c","4",".","U","I","n","t","1","2","8">>
t_arc4_UInt256 == <<"a","r","c","4",".","U","I","n","t","2","5","6">>
t_arc4_DynamicBytes == <<"a","r","c","4",".","D","y","n","a","m","i","c","B","y","t","e","s">>
t_arc4_DynamicArray == <<"a","r","c","4",".","D","y","n","a","m","i","c","A","r","r","a","y">>
t_arc4_StaticArray == <<"a","r","c","4",".","S","t","a","t","i","c","A","r","r","a","y">>
t_arc4_Tuple == <<"a","r","c","4",".","T","u","p","l","e">>

\* the position after the longest run of \s from p
SkipWs(s, p) == CHOOSE e \in AfterWs(s, p) : \A f \in AfterWs(s, p) : f <= e
\* the position after the longest run of \w from p
SkipWord(s, p) ==
    CHOOSE e \in p..(Len(s) + 1) :
        /\ \A k \in p..(e - 1) : IsWord(s[k])
        /\ e = Len(s) + 1 \/ ~IsWord(s[e])

\* line.strip()
Strip(s) ==
    IF \A k \in 1..Len(s) : s[k] \in WS THEN <<>>
    ELSE SubSeq(s, CHOOSE a \in 1..Len(s) : s[a] \notin WS /\ \A k \in 1..(a - 1) : s[k] \in WS,
                CHOOSE b \in 1..Len(s) : s[b] \notin WS /\ \A k \in (b + 1)..Len(s) : s[k] \in WS)

\* str.startswith
StartsWith(s, lit) == IsAt(s, 1, lit)

int_types == {t_UInt64, t_bool, t_Bool, t_True, t_False}
bytes_types ==
    {t_Account, t_String, t_Bytes, t_BigUInt, t_arc4_Address, t_arc4_String,
     t_arc4_UInt8, t_arc4_UInt16, t_arc4_UInt32, t_arc4_UInt64, t_arc4_UInt128,
     t_arc4_UInt256, t_arc4_Bool, t_arc4_DynamicBytes, t_arc4_DynamicArray,
     t_arc4_StaticArray, t_arc4_Tuple}

\* the alternatives of group 3 that are plain names, in the order of the pattern
HintNames ==
    <<t_UInt64, t_Account, t_String, t_Bytes, t_BigUInt, t_Bool, t_bool, t_True, t_False>>

\* lit\.\w+ at p: <<the text matched>>, or <<>>
DottedAt(s, p, lit) ==
    IF IsAt(s, p, lit) /\ CharAt(s, p + Len(lit), {c \in Range(s) : IsWord(c)})
    THEN <<SubSeq(s, p, SkipWord(s, p + Len(lit)) - 1)>>
    ELSE <<>>

\* group 3 of the first pattern at p: <<the text of the first alternative that
\* matches>>, or <<>>
TypeHintAt(s, p) ==
    LET names == SelectSeq(HintNames, LAMBDA n : IsAt(s, p, n))
    IN  IF DottedAt(s, p, t_arc4) # <<>> THEN DottedAt(s, p, t_arc4)
        ELSE IF names # <<>> THEN <<names[1]>>
        ELSE IF DottedAt(s, p, t_Txn_dot) # <<>> THEN DottedAt(s, p, t_Txn_dot)
        ELSE DottedAt(s, p, t_op_dot)

\* self\.(\w+)\s*=\s*  at the start of s: the position after it, or 0
AfterSelfAssign(s) ==
    IF IsAt(s, 1, t_self) /\ SkipWord(s, Len(t_self) + 1) > Len(t_self) + 1
    THEN LET e == SkipWs(s, SkipWord(s, Len(t_self) + 1))
         IN  IF CharAt(s, e, {"="}) THEN SkipWs(s, e + 1) ELSE 0
    ELSE 0

\* re.match of the first pattern (lines 1227-1232): [ok, wrapper, type_hint];
\* wrapper is <<>> for None.  Every optional part is taken when it can be:
\* giving one back never lets group 3 match, no alternative of group 3 begins
\* with "(", a blank, "G" or "L".
MatchTyped(s) ==
    LET e == AfterSelfAssign(s)
        wrapper == IF IsAt(s, e, t_GlobalState) THEN t_GlobalState
                   ELSE IF IsAt(s, e, t_LocalState) THEN t_LocalState
                   ELSE <<>>
        f == e + Len(wrapper)
        g == SkipWs(s, IF CharAt(s, f, {"("}) THEN f + 1 ELSE f)
    IN  IF e = 0 \/ TypeHintAt(s, g) = <<>>
        THEN [ok |-> FALSE, wrapper |-> <<>>, type_hint |-> <<>>]
        ELSE [ok |-> TRUE, wrapper |-> wrapper, type_hint |-> TypeHintAt(s, g)[1]]

\* the fault of leaving out the branch for Txn.*: the value falls to the
\* default and counts as an integer
IsIntWithoutTxn(type_hint) ==
    /\ type_hint \notin bytes_types
    /\ ~StartsWith(type_hint, t_arc4)

\* lines 1240-1256: is_int (otherwise is_bytes)
IsInt(type_hint) ==
    IF type_hint \in int_types THEN TRUE
    ELSE IF type_hint \in bytes_types THEN FALSE
    ELSE IF StartsWith(type_hint, t_Txn_dot) THEN FALSE
    ELSE IF StartsWith(type_hint, t_arc4) THEN FALSE
    ELSE TRUE

\* line 1272: self\.\w+\s*=\s*BoxMap\(
MatchBoxMap(s) == AfterSelfAssign(s) # 0 /\ IsAt(s, AfterSelfAssign(s), t_BoxMap_open)

\* lines 1277-1280: self\.(\w+)\s*=\s*GlobalState\(\s*(UInt64|...|bool)\s*\):
\* <<group 2>>, or <<>>
MatchTypeArgument(s) ==
    LET e == AfterSelfAssign(s)
        g == SkipWs(s, e + Len(t_GlobalState_open))
        names == SelectSeq(<<t_UInt64, t_Account, t_String, t_Bytes, t_BigUInt, t_bool>>,
                           LAMBDA n : IsAt(s, g, n)
                                      /\ CharAt(s, SkipWs(s, g + Len(n)), {")"}))
    IN  IF e # 0 /\ IsAt(s, e, t_GlobalState_open) /\ names # <<>> THEN <<names[1]>>
        ELSE <<>>

\* the counter one line adds to, given in_init as it is once lines 1208-1217
\* have looked at the line: "global_ints", "global_bytes", "local_ints",
\* "local_bytes" or "none"
CounterOf(stripped, inside) ==
    IF ~inside \/ StartsWith(stripped, <<"#">>) THEN "none"
    ELSE IF MatchTyped(stripped).ok
    THEN IF MatchTyped(stripped).wrapper = t_LocalState
         THEN IF IsInt(MatchTyped(stripped).type_hint) THEN "local_ints" ELSE "local_bytes"
         ELSE IF IsInt(MatchTyped(stripped).type_hint) THEN "global_ints"
              ELSE "global_bytes"
    ELSE IF MatchBoxMap(stripped) THEN "none"
    ELSE IF MatchTypeArgument(stripped) # <<>>
    THEN IF MatchTypeArgument(stripped)[1] \in int_types THEN "global_ints"
         ELSE "global_bytes"
    ELSE "none"

\* lines 1208-1214: in_init after the line has been looked at
InInitAfter(stripped, inside) ==
    IF Contains(stripped, t_def_init) THEN TRUE
    ELSE IF inside /\ StartsWith(stripped, t_def) THEN FALSE
    ELSE inside

\* ------------------------------------------------------------------ _compute_state_schema: inputs

\* the longest initializer drawn
MaxLines == 2

\* the statements of a body
BodyLines ==
    {l_count_uint64, l_owner_account, l_name_arc4, l_seller_txn, l_balances_boxmap,
     l_votes_local, l_total_state, l_comment, l_pass, l_count_aug}

\* a contract: a method before the initializer (or none), the initializer, a
\* method after it
SchemaSource(before, init, after) == [before |-> before, init |-> init, after |-> after]
SchemaSources ==
    {SchemaSource(before, init, after) :
        before \in {<<>>, <<l_count_uint64>>, <<l_seller_txn>>},
        init \in SeqsUpTo(BodyLines, MaxLines),
        after \in {<<l_pass>>, <<l_count_uint64>>, <<l_owner_account>>, <<l_count_aug>>}}

Indented(body) == [k \in 1..Len(body) |-> t_indent_body \o body[k]]

\* the number of lines before the first statement of the initializer
InitOffset(src) == IF src.before = <<>> THEN 2 ELSE 5 + Len(src.before)

\* code.split("\n") of the text of src
SourceLines(src) ==
    <<l_class>>
    \o (IF src.before = <<>> THEN <<>>
        ELSE <<l_decorator, l_def_setup>> \o Indented(src.before) \o <<<<>>>>)
    \o <<l_def_init>> \o Indented(src.init)
    \o <<<<>>, l_decorator, l_def_release>> \o Indented(src.after)

\* ------------------------------------------------------------------ _compute_state_schema, step by step

SingleIdle ==
    /\ algopy_code = Source(<<>>, FALSE, <<>>)
    /\ arc32_json = PyNone
    /\ solidity_code = PyNone
    /\ pc = "idle"
    /\ tree = <<>>
    /\ contract_cls = <<>>
    /\ state_variables = <<>>
    /\ state_var_names = {}
    /\ iteration = <<>>
    /\ methods = <<>>
    /\ subroutines = <<>>
    /\ call_graph = <<>>
    /\ storage_access_map = <<>>
    /\ inner_txn_map = <<>>
    /\ events_list = <<>>
    /\ result = <<>>
    /\ prior = <<>>

\* a call _compute_state_schema(code), lines 1183-1202
InitSchema ==
    /\ schema_source \in SchemaSources
    /\ code_lines = SourceLines(schema_source)
    /\ line_index = 1
    /\ in_init = FALSE
    /\ global_ints = 0
    /\ global_bytes = 0
    /\ local_ints = 0
    /\ local_bytes = 0
    /\ schema = <<>>
    /\ SingleIdle
    /\ MultiIdle
    /\ ConcurrentIdle

\* lines 1204-1285: one iteration of the loop over the lines
SchemaLine ==
    /\ schema = <<>>
    /\ line_index \in 1..Len(code_lines)
    /\ \E stripped \in {Strip(code_lines[line_index])} :
          /\ in_init' = InInitAfter(stripped, in_init)
          /\ \E counter \in {IF Contains(stripped, t_def_init) THEN "none"
                             ELSE CounterOf(stripped, in_init')} :
                /\ global_ints' = global_ints + IF counter = "global_ints" THEN 1 ELSE 0
                /\ global_bytes' = global_bytes + IF counter = "global_bytes" THEN 1 ELSE 0
                /\ local_ints' = local_ints + IF counter = "local_ints" THEN 1 ELSE 0
                /\ local_bytes' = local_bytes + IF counter = "local_bytes" THEN 1 ELSE 0
    /\ line_index' = line_index + 1
    /\ UNCHANGED <<schema_source, code_lines, schema, single_vars, multi_vars, conc_vars>>

\* lines 1288-1293
SchemaReturn ==
    /\ schema = <<>>
    /\ line_index = Len(code_lines) + 1
    /\ schema' = <<[global_ints |-> global_ints, global_bytes |-> global_bytes,
                    local_ints |-> local_ints, local_bytes |-> local_bytes]>>
    /\ UNCHANGED <<schema_source, code_lines, line_index, in_init, global_ints,
                   global_bytes, local_ints, local_bytes, single_vars, multi_vars,
                   conc_vars>>

NextSchema ==
    \/ SchemaLine
    \/ SchemaReturn

SpecSchema == InitSchema /\ [][NextSchema]_vars

\* the statements that assign a UInt64 value, an Account, arc4.* or Txn.* value,
\* a BoxMap
UInt64Assignments == {l_count_uint64}
BytesAssignments == {l_owner_account, l_name_arc4, l_seller_txn}
BoxMapAssignments == {l_balances_boxmap}

\* line k of the text is a statement of the initializer of src
InsideInit(src, k) == k \in (InitOffset(src) + 1)..(InitOffset(src) + Len(src.init))

Counters == <<global_ints, global_bytes, local_ints, local_bytes>>

\* C13: _compute_state_schema puts each assignment of __init__ into at most one
\* of the four counters.  The step of the loop over a line adds one to at most
\* one counter and nothing to the others; over a statement of __init__ that
\* assigns a UInt64 value it adds one to global_ints; over one that assigns an
\* Account, arc4.* or Txn.* value it adds one to global_bytes; over one that
\* assigns a BoxMap, and over every line outside __init__, it adds nothing.
\* (Sources: a class with unqualified constructor names, as in the tests, one
\* statement per line, every method headed by its def line.)
C13_ClassifiesInitAssignments ==
    [][LET k == line_index
           changed == {c \in 1..4 : Counters'[c] # Counters[c]}
       IN  /\ Cardinality(changed) <= 1
           /\ \A c \in changed : Counters'[c] = Counters[c] + 1
           /\ InsideInit(schema_source, k) =>
                 LET stmt == schema_source.init[k - InitOffset(schema_source)]
                 IN  /\ stmt \in UInt64Assignments => changed = {1}
                     /\ stmt \in BytesAssignments => changed = {2}
                     /\ stmt \in BoxMapAssignments => changed = {}
           /\ ~InsideInit(schema_source, k) => changed = {}
     ]_vars

\* a call has returned for a source that assigns a Txn.* value before __init__,
\* a BoxMap and a UInt64 value inside it and an Account after it
C13_Witness ==
    /\ schema # <<>>
    /\ schema_source = SchemaSource(<<l_seller_txn>>, <<l_balances_boxmap, l_count_uint64>>,
                                    <<l_owner_account>>)
    /\ schema[1] = [global_ints |-> 1, global_bytes |-> 0, local_ints |-> 0,
                    local_bytes |-> 0]

\* ------------------------------------------------------------------ reads and writes

\* statement st refers to self.v
MentionsIn(st, v) == ExprMentions(st.t, v) \/ ExprMentions(st.v, v)

\* st is self.v = expr or self.v.value = expr, with no self.v in expr
PlainAssignment(st, v) ==
    /\ st.k = "Assign"
    /\ st.t.e \in {"Attr", "Value"}
    /\ st.t.s = v
    /\ ~ExprMentions(st.v, v)

\* the only use node makes of v is plain assignment
OnlyAssigns(node, v) ==
    /\ \E k \in 1..Len(node.body) : PlainAssignment(node.body[k], v)
    /\ \A k \in 1..Len(node.body) :
          MentionsIn(node.body[k], v) => PlainAssignment(node.body[k], v)

\* node uses v in expressions and never assigns it
OnlyReads(node, v) ==
    /\ \E k \in 1..Len(node.body) : ExprMentions(node.body[k].v, v)
    /\ \A k \in 1..Len(node.body) : ~ExprMentions(node.body[k].t, v)

\* C14: a member whose only use of state variable v is a plain assignment
\* (self.v = expr or self.v.value = expr, v not in expr) has v in writes_state
\* and not in reads_state
C14_PlainAssignmentWritesOnly ==
    Returned /\ result[1].errors = <<>> =>
        \A n \in 1..Len(MemberNodes(contract_cls[1])) :
            \A v \in StateVarNames(result[1].state_variables) :
                LET node == MemberNodes(contract_cls[1])[n]
                IN  OnlyAssigns(node, v) =>
                        /\ v \in Range(EntryOf(result[1], node).writes_state)
                        /\ v \notin Range(EntryOf(result[1], node).reads_state)

\* C15: a member that uses state variable v only in expressions (operand of an
\* operator, equality comparison included, argument of a call, return
\* expression, subscript lookup) and never assigns it has v in reads_state and
\* not in writes_state
C15_ExpressionUseReadsOnly ==
    Returned /\ result[1].errors = <<>> =>
        \A n \in 1..Len(MemberNodes(contract_cls[1])) :
            \A v \in StateVarNames(result[1].state_variables) :
                LET node == MemberNodes(contract_cls[1])[n]
                IN  OnlyReads(node, v) =>
                        /\ v \in Range(EntryOf(result[1], node).reads_state)
                        /\ v \notin Range(EntryOf(result[1], node).writes_state)

\* ------------------------------------------------------------------ security notes, again

\* the notes of result r of the given type
NotesOfType(r, type) == SelectSeq(r.security_notes, LAMBDA note : note.type = type)

\* C16: every member, entry point or internal helper, that issues an inner
\* transaction and has guards_count 0 is named by a note of type danger
C16_UnguardedOutboundIsDanger ==
    Returned /\ result[1].errors = <<>> =>
        LET members == result[1].methods \o result[1].subroutines
        IN  \A k \in 1..Len(members) :
                members[k].inner_txns # <<>> /\ members[k].guards_count = 0 =>
                    \E n \in 1..Len(NotesOfType(result[1], "danger")) :
                        NotesOfType(result[1], "danger")[n].method = PyStr(members[k].name)

\* the non-readonly entry points of result r
NonReadonly(r) == SelectSeq(r.methods, LAMBDA m : ~Truthy(m.is_readonly))
AllGuarded(ms) == \A k \in 1..Len(ms) : ms[k].guards_count > 0

\* C17 as stated: security_notes holds exactly one note of type safe when every
\* non-readonly entry point has guards_count > 0, the case of no non-readonly
\* entry point included, and none otherwise
C17_SafeNoteAsStated ==
    Returned /\ result[1].errors = <<>> =>
        Len(NotesOfType(result[1], "safe")) =
            IF AllGuarded(NonReadonly(result[1])) THEN 1 ELSE 0

\* C17: security_notes holds exactly one note of type safe when the contract
\* has a non-readonly entry point and every one of them has guards_count > 0,
\* and none otherwise (none, then, for a contract without a non-readonly entry
\* point); a safe note never stands beside a warning note
C17_SafeNote ==
    Returned /\ result[1].errors = <<>> =>
        /\ Len(NotesOfType(result[1], "safe")) =
              IF NonReadonly(result[1]) # <<>> /\ AllGuarded(NonReadonly(result[1]))
              THEN 1 ELSE 0
        /\ NotesOfType(result[1], "safe") = <<>> \/ NotesOfType(result[1], "warning") = <<>>

\* a result with a safe note for two guarded entry points
C17_Witness ==
    /\ Returned
    /\ result[1].errors = <<>>
    /\ Len(NonReadonly(result[1])) = 2
    /\ AllGuarded(NonReadonly(result[1]))
    /\ Len(NotesOfType(result[1], "safe")) = 1

\* ------------------------------------------------------------------ guards

\* the calls of op.err and of op.exit in a body
AbortCalls(body_nodes) ==
    SelectSeq(WalkCalls(body_nodes), LAMBDA c : c.s \in {t_op_err, t_op_exit})

\* C18: guards_count of a member is the number of assert statements of its body
\* plus the number of calls of op.err and op.exit in it; a call of any other
\* function adds nothing
C18_GuardCount ==
    Returned /\ result[1].errors = <<>> =>
        \A n \in 1..Len(MemberNodes(contract_cls[1])) :
            LET node == MemberNodes(contract_cls[1])[n]
            IN  EntryOf(result[1], node).guards_count =
                    Len(SelectSeq(node.body, LAMBDA st : st.k = "Assert"))
                    + Len(AbortCalls(node.body))

\* ------------------------------------------------------------------ member classification

\* the number of entries of list named name
Named(list, name) == Len(SelectSeq(list, LAMBDA m : m.name = name))

\* a marker of node contains abimethod or baremethod
MarkedInvocable(node) ==
    \E k \in 1..Len(node.decorator_list) :
        \/ Contains(node.decorator_list[k].name, t_abimethod)
        \/ Contains(node.decorator_list[k].name, t_baremethod)

\* C19: every function of the contract class other than __init__ is in exactly
\* one of methods and subroutines: in methods when one of its markers contains
\* abimethod or baremethod, a subroutine marker beside it or not, in
\* subroutines otherwise; __init__ is in neither and the two lists hold
\* nothing else
C19_MembersPartitioned ==
    Returned /\ result[1].errors = <<>> =>
        /\ \A n \in 1..Len(MemberNodes(contract_cls[1])) :
              LET node == MemberNodes(contract_cls[1])[n]
              IN  /\ Named(result[1].methods, node.name)
                        = IF MarkedInvocable(node) THEN 1 ELSE 0
                  /\ Named(result[1].subroutines, node.name)
                        = IF MarkedInvocable(node) THEN 0 ELSE 1
        /\ Named(result[1].methods \o result[1].subroutines, t_init) = 0
        /\ Len(result[1].methods) + Len(result[1].subroutines)
              = Len(MemberNodes(contract_cls[1]))

\* a result for a class whose member increment carries both a subroutine and
\* an abimethod marker and whose member helper carries none
C19_Witness ==
    /\ Returned
    /\ result[1].errors = <<>>
    /\ \E n \in 1..Len(MemberNodes(contract_cls[1])) :
          /\ IsSubroutineDec(MemberNodes(contract_cls[1])[n])
          /\ IsAbiMethod(MemberNodes(contract_cls[1])[n])
          /\ Named(result[1].methods, MemberNodes(contract_cls[1])[n].name) = 1
    /\ \E n \in 1..Len(MemberNodes(contract_cls[1])) :
          /\ MemberNodes(contract_cls[1])[n].decorator_list = <<>>
          /\ Named(result[1].subroutines, MemberNodes(contract_cls[1])[n].name) = 1

\* ------------------------------------------------------------------ primitive constructors

\* the constructors of the primitive types: integer, boolean, account, string,
\* bytes, arbitrary-precision integer
PrimitiveConstructors == {t_UInt64, t_Bool, t_Account, t_String, t_Bytes, t_BigUInt}

\* the assignments self.x = ... of the initializer of cls, in source order
InitAssignments(cls) ==
    SelectSeq(Concat([n \in 1..Len(cls.body) |->
                         IF cls.body[n].n = "FunctionDef" /\ cls.body[n].name = t_init
                         THEN cls.body[n].body ELSE <<>>]),
              LAMBDA st : st.k = "Assign" /\ st.t.e = "Attr")

\* C20: an assignment self.x = P(...) of the initializer, P the constructor of a
\* primitive type, gives the state variable it declares the storage type
\* GlobalState and the data type P, never Unknown
C20_PrimitiveIsGlobalState ==
    Returned /\ result[1].errors = <<>> =>
        \A k \in 1..Len(InitAssignments(contract_cls[1])) :
            LET st == InitAssignments(contract_cls[1])[k]
            IN  st.v.e = "Call" /\ AfterLastDot(st.v.s) \in PrimitiveConstructors =>
                    /\ result[1].state_variables[k].name = st.t.s
                    /\ result[1].state_variables[k].storage_type = t_GlobalState
                    /\ result[1].state_variables[k].data_type = AfterLastDot(st.v.s)

\* ------------------------------------------------------------------ unrecognised right-hand sides

\* the right-hand side is a call of a storage constructor or of the constructor
\* of a primitive type
RecognisedConstructor(value_node) ==
    /\ value_node.e = "Call"
    /\ \/ AfterLastDot(value_node.s) \in Range(_STORAGE_CONSTRUCTORS)
       \/ AfterLastDot(value_node.s) \in PrimitiveConstructors
       \/ value_node.s \in Range(_DIRECT_TYPE_MAP)

\* the entries of state_variables named name
EntriesNamed(r, name) ==
    {k \in 1..Len(r.state_variables) : r.state_variables[k].name = name}

\* C21: every assignment self.x = ... of the initializer yields an entry named x
\* in state_variables (as many entries as assignments); when the right-hand
\* side is neither a storage constructor nor a primitive constructor the entry
\* has storage type Unknown and its data type is the unparsed right-hand side
C21_NoStateDropped ==
    Returned /\ result[1].errors = <<>> =>
        \A k \in 1..Len(InitAssignments(contract_cls[1])) :
            LET st == InitAssignments(contract_cls[1])[k]
                same == {n \in 1..Len(InitAssignments(contract_cls[1])) :
                            InitAssignments(contract_cls[1])[n].t.s = st.t.s}
            IN  /\ Cardinality(EntriesNamed(result[1], st.t.s)) >= Cardinality(same)
                /\ ~RecognisedConstructor(st.v) =>
                      \E n \in EntriesNamed(result[1], st.t.s) :
                          /\ result[1].state_variables[n].storage_type = t_Unknown
                          /\ result[1].state_variables[n].data_type = _unparse_node(st.v)

\* the initializer assigns a parameter and the result of a call of log to
\* attributes, and both are reported as Unknown
C21_Witness ==
    /\ Returned
    /\ result[1].errors = <<>>
    /\ \E k \in 1..Len(InitAssignments(contract_cls[1])) :
          InitAssignments(contract_cls[1])[k].v.e = "Name"
    /\ \E k \in 1..Len(InitAssignments(contract_cls[1])) :
          /\ InitAssignments(contract_cls[1])[k].v.e = "Call"
          /\ ~RecognisedConstructor(InitAssignments(contract_cls[1])[k].v)
    /\ \A k \in 1..Len(result[1].state_variables) :
          result[1].state_variables[k].storage_type = t_Unknown

\* ------------------------------------------------------------------ deployment order

\* the number of edges of the result whose source is named name
OutgoingEdges(name) ==
    Cardinality({k \in 1..Len(multi_result[1].inter_contract_edges) :
                    multi_result[1].inter_contract_edges[k].from_contract = name})

\* the positions of q that hold x
Occurrences(q, x) == {k \in 1..Len(q) : q[k] = x}

\* C22: deployment_order is a permutation of the contract names, ascending in
\* the number of edges whose source is the contract, and contracts with equal
\* counts keep their input order
C22_DeploymentOrderSorted ==
    MultiReturned =>
        LET order == multi_result[1].deployment_order
        IN  /\ Len(order) = Len(contract_names)
            /\ \A x \in Range(order) \cup Range(contract_names) :
                  Cardinality(Occurrences(order, x))
                      = Cardinality(Occurrences(contract_names, x))
            /\ \A a, b \in 1..Len(order) :
                  a < b => OutgoingEdges(order[a]) <= OutgoingEdges(order[b])
            /\ \A c \in 0..Len(multi_result[1].inter_contract_edges) :
                  SelectSeq(order, LAMBDA x : OutgoingEdges(x) = c)
                      = SelectSeq(contract_names, LAMBDA x : OutgoingEdges(x) = c)

\* three contracts, two of them with the same count and one with a smaller
\* count that the sort moves ahead of an earlier entry
C22_Witness ==
    /\ MultiReturned
    /\ Len(contract_names) = 3
    /\ DistinctNames(contract_names)
    /\ multi_result[1].deployment_order # contract_names
    /\ \E a, b \in 1..3 :
          /\ a < b
          /\ OutgoingEdges(contract_names[a]) = OutgoingEdges(contract_names[b])
          /\ OutgoingEdges(contract_names[a]) > 0
          /\ Position(multi_result[1].deployment_order, contract_names[a])
                < Position(multi_result[1].deployment_order, contract_names[b])

\* ------------------------------------------------------------------ edges per pair

\* the edges of the result from the contract named from_c to the one named to_c
EdgesBetween(from_c, to_c) ==
    {k \in 1..Len(multi_result[1].inter_contract_edges) :
        /\ multi_result[1].inter_contract_edges[k].from_contract = from_c
        /\ multi_result[1].inter_contract_edges[k].to_contract = to_c}

\* C23: for each ordered pair of different input contracts (A, B) there is at
\* most one edge from A to B, and none when no pass matches A's source against
\* B's name; no edge has the same contract as its source and its target
C23_EdgesPerPair ==
    MultiReturned =>
        /\ \A a, b \in 1..Len(contracts) :
              a # b =>
                  /\ Cardinality(EdgesBetween(contract_names[a], contract_names[b])) <= 1
                  /\ NoPassMatches(a, b) =>
                        EdgesBetween(contract_names[a], contract_names[b]) = {}
        /\ \A k \in 1..Len(multi_result[1].inter_contract_edges) :
              multi_result[1].inter_contract_edges[k].from_contract
                  # multi_result[1].inter_contract_edges[k].to_contract

\* ------------------------------------------------------------------ naming-convention pass

\* the names of the members of analyses[a] that issue an ApplicationCall
CallerNames(a) ==
    {m.name : m \in Range(AppCallers(analyses[a].methods \o analyses[a].subroutines))}

\* those of them that read or write a state variable whose lower-cased name
\* holds variant
AccessorNames(a, variant) ==
    {m.name : m \in {c \in Range(AppCallers(analyses[a].methods \o analyses[a].subroutines)) :
                        \E sv \in Range(c.reads_state \o c.writes_state) :
                            Contains(Lower(sv), variant)}}

\* the name of contracts[b] is absent from the source of contracts[a], which
\* holds a variant of it once lower-cased
ConventionPair(a, b) ==
    /\ a # b
    /\ ~Contains(SourceText(contracts[a].algopy_code), contract_names[b])
    /\ MatchingVariants(Lower(SourceText(contracts[a].algopy_code)), contract_names[b]) # {}

\* the edge e is what the naming-convention pass gives for a matched variant
ConventionOutcome(e, a, variant) ==
    IF AccessorNames(a, variant) # {}
    THEN /\ e.relationship_type = t_ApplicationCall
         /\ e.via_method \in {PyStr(x) : x \in AccessorNames(a, variant)}
    ELSE IF CallerNames(a) # {}
    THEN /\ e.relationship_type = t_ApplicationCall
         /\ e.via_method \in {PyStr(x) : x \in CallerNames(a)}
    ELSE /\ e.relationship_type = t_references
         /\ e.via_method = PyNone

\* C24: when B's name is absent from A's source and a variant of it occurs
\* case-insensitively, the edge from A to B is ApplicationCall via a member that
\* issues an application call and accesses a state variable holding the matched
\* variant if there is one, else ApplicationCall via a member that issues an
\* application call if there is one, else references without via_method; a
\* via_method always names a member of A that issues an application call
C24_NamingConvention ==
    MultiReturned /\ DistinctNames(contract_names) =>
        \A a, b \in 1..Len(contracts) :
            ConventionPair(a, b) =>
                /\ EdgesBetween(contract_names[a], contract_names[b]) # {}
                /\ \A k \in EdgesBetween(contract_names[a], contract_names[b]) :
                      LET e == multi_result[1].inter_contract_edges[k]
                      IN  /\ \E variant \in MatchingVariants(
                                    Lower(SourceText(contracts[a].algopy_code)),
                                    contract_names[b]) :
                                ConventionOutcome(e, a, variant)
                          /\ e.via_method # PyNone =>
                                e.via_method \in {PyStr(x) : x \in CallerNames(a)}

\* one contract is linked through its second caller, the one that accesses
\* vault_app_id, and another one, without application call, only references
C24_Witness ==
    /\ MultiReturned
    /\ DistinctNames(contract_names)
    /\ \E a, b \in 1..Len(contracts) :
          /\ ConventionPair(a, b)
          /\ Cardinality(CallerNames(a)) = 2
          /\ \E k \in EdgesBetween(contract_names[a], contract_names[b]) :
                /\ multi_result[1].inter_contract_edges[k].via_method = PyStr(t_reset)
                /\ analyses[a].methods[1].name # t_reset
    /\ \E a, b \in 1..Len(contracts) :
          /\ ConventionPair(a, b)
          /\ CallerNames(a) = {}
          /\ \E k \in EdgesBetween(contract_names[a], contract_names[b]) :
                multi_result[1].inter_contract_edges[k].via_method = PyNone

\* ------------------------------------------------------------------ interface specification

\* the descriptor of the interface specification carrying name, or PyNone
DescriptorOf(name) ==
    IF ~Truthy(arc32_json) \/ ~Arc32MethodsList(arc32_json).ok
          \/ ~Iterate(Arc32MethodsList(arc32_json).list).ok
    THEN PyNone
    ELSE Arc32ByName(Iterate(Arc32MethodsList(arc32_json).list).items, name)

\* the result r without the signatures and descriptions of its methods
WithoutMetadata(r) ==
    [r EXCEPT !.methods =
        [k \in 1..Len(r.methods) |->
            [r.methods[k] EXCEPT !.abi_signature = Absent, !.description = Absent]]]

\* text ends with suffix
EndsWith(text, suffix) ==
    /\ Len(suffix) <= Len(text)
    /\ SubSeq(text, Len(text) - Len(suffix) + 1, Len(text)) = suffix

\* m carries the signature name(...)returnType of its descriptor d and the
\* description of d when d has one
Annotated(m, d) ==
    /\ m.abi_signature.t = "str"
    /\ IsAt(m.abi_signature.s, 1, m.name \o <<"(">>)
    /\ EndsWith(m.abi_signature.s,
                <<")">> \o PyToStr(DictGet(DictGet(d, t_returns, PyDict(<<>>)),
                                           t_type, PyStr(t_void))))
    /\ m.description = IF Truthy(DictGet(d, t_desc, PyNone))
                       THEN DictGet(d, t_desc, PyNone) ELSE Absent

\* C25: the result of a call with an interface specification equals the result
\* of the call without it, except that each method a descriptor names gains
\* abi_signature, of the form name(type,...)returnType, and the description of
\* the descriptor; methods without descriptor, subroutines, graphs, events and
\* security notes are the same
C25_SpecOnlyAddsMetadata ==
    Returned =>
        /\ WithoutMetadata(result[1])
              = AnalyzeContract(algopy_code, PyNone, solidity_code, iteration)
        /\ \A k \in 1..Len(result[1].methods) :
              IF Truthy(DescriptorOf(result[1].methods[k].name))
              THEN Annotated(result[1].methods[k], DescriptorOf(result[1].methods[k].name))
              ELSE /\ result[1].methods[k].abi_signature = Absent
                   /\ result[1].methods[k].description = Absent

\* the descriptor names the method increment of a class that also has the
\* subroutine helper: the method gains its signature and its description
C25_Witness ==
    /\ Returned
    /\ Truthy(DescriptorOf(t_increment))
    /\ \E k \in 1..Len(result[1].methods) :
          /\ result[1].methods[k].name = t_increment
          /\ result[1].methods[k].abi_signature.t = "str"
          /\ result[1].methods[k].description = PyStr(t_Adds)
    /\ \E k \in 1..Len(result[1].subroutines) : result[1].subroutines[k].name = t_helper
    /\ result[1].security_notes # <<>>

\* ------------------------------------------------------------------ primary contract

\* the classes declared at the top level of the source, in source order
TopLevelClasses == SelectSeq(algopy_code.classes, LAMBDA c : c.inside = <<>>)

\* C26: the primary contract is the first top-level class whose base matches
\* the allow-list and, when no top-level class matches, the first top-level
\* class; a class nested in another declaration is never preferred to a
\* top-level class
C26_PrimaryIsTopLevel ==
    Returned /\ result[1].errors = <<>> /\ TopLevelClasses # <<>> =>
        /\ contract_cls[1] =
              IF SelectSeq(TopLevelClasses, BaseMatches) # <<>>
              THEN SelectSeq(TopLevelClasses, BaseMatches)[1]
              ELSE TopLevelClasses[1]
        /\ result[1].contract_name = contract_cls[1].name

\* ------------------------------------------------------------------ graphs as aggregation

\* the entries of methods and subroutines of the result r
MembersOf(r) == r.methods \o r.subroutines

\* the members of r named name for which Fact holds
MembersWith(r, name, Fact(_)) ==
    {k \in 1..Len(MembersOf(r)) : MembersOf(r)[k].name = name /\ Fact(MembersOf(r)[k])}

\* the positions of list that hold edge
EdgesEqual(list, edge) == {k \in 1..Len(list) : list[k] = edge}

\* the names that occur in the per-member facts and in the edges of r
FactNames(r) ==
    UNION {Range(MembersOf(r)[k].reads_state) \cup Range(MembersOf(r)[k].writes_state)
           \cup Range(MembersOf(r)[k].inner_txns) \cup Range(MembersOf(r)[k].emits_events)
           \cup Range(MembersOf(r)[k].calls_methods) : k \in 1..Len(MembersOf(r))}
    \cup {r.storage_access_map[k].variable : k \in 1..Len(r.storage_access_map)}
    \cup {r.inner_txn_map[k].txn_type : k \in 1..Len(r.inner_txn_map)}
    \cup {r.events[k].name : k \in 1..Len(r.events)}
    \cup {r.call_graph[k].to : k \in 1..Len(r.call_graph)}

\* call_graph holds the pair (name, x) iff a member named name calls x and x
\* names a member
CallGraphBacked(r, name, x) ==
    (EdgesEqual(r.call_graph, [from |-> name, to |-> x]) # {})
        <=> /\ MembersWith(r, name, LAMBDA m : x \in Range(m.calls_methods)) # {}
            /\ x \in MemberNames(r)

\* one read edge and one write edge per member named name that reads or
\* writes x, one inner_txn_map edge per member that issues x
EdgesBacked(r, name, x) ==
    /\ Cardinality(EdgesEqual(r.storage_access_map,
                      [method |-> name, variable |-> x, access_type |-> "read"]))
          = Cardinality(MembersWith(r, name, LAMBDA m : x \in Range(m.reads_state)))
    /\ Cardinality(EdgesEqual(r.storage_access_map,
                      [method |-> name, variable |-> x, access_type |-> "write"]))
          = Cardinality(MembersWith(r, name, LAMBDA m : x \in Range(m.writes_state)))
    /\ Cardinality(EdgesEqual(r.inner_txn_map, [method |-> name, txn_type |-> x]))
          = Cardinality(MembersWith(r, name, LAMBDA m : x \in Range(m.inner_txns)))

\* the event x has one entry, listing the members that emit it, iff a member
\* emits it, and no entry otherwise
EventBacked(r, x) ==
    LET emitters == {MembersOf(r)[k].name :
                        k \in {n \in 1..Len(MembersOf(r)) :
                                  x \in Range(MembersOf(r)[n].emits_events)}}
        entries == {k \in 1..Len(r.events) : r.events[k].name = x}
    IN  /\ Cardinality(entries) = IF emitters = {} THEN 0 ELSE 1
        /\ \A k \in entries : Range(r.events[k].emitted_by) = emitters

\* C27: the four graphs aggregate the per-member facts and nothing else:
\* call_graph is the pairs (m, c) with c called by m and naming a member;
\* storage_access_map has one read edge per variable m reads and one write
\* edge per variable m writes; inner_txn_map has one edge per transaction type
\* of m; each event has one entry, whose emitted_by lists its emitters; every
\* edge names a member
C27_GraphsAggregateFacts ==
    Returned /\ result[1].errors = <<>> =>
        /\ \A name \in MemberNames(result[1]) : \A x \in FactNames(result[1]) :
              /\ CallGraphBacked(result[1], name, x)
              /\ EdgesBacked(result[1], name, x)
        /\ \A x \in FactNames(result[1]) : EventBacked(result[1], x)
        /\ \A k \in 1..Len(result[1].call_graph) :
              result[1].call_graph[k].from \in MemberNames(result[1])
        /\ \A k \in 1..Len(result[1].storage_access_map) :
              /\ result[1].storage_access_map[k].method \in MemberNames(result[1])
              /\ result[1].storage_access_map[k].access_type \in {"read", "write"}
        /\ \A k \in 1..Len(result[1].inner_txn_map) :
              result[1].inner_txn_map[k].method \in MemberNames(result[1])

\* two members emit the same event, which has one entry naming both
C27_Witness ==
    /\ Returned
    /\ Len(result[1].events) = 1
    /\ Len(result[1].events[1].emitted_by) = 2
    /\ \A k \in 1..Len(MembersOf(result[1])) :
          MembersOf(result[1])[k].emits_events = <<result[1].events[1].name>>

\* ------------------------------------------------------------------ one analysis per entry

\* analyze_contract on the entry c with the iteration order given, under the
\* name of the entry when it has one
AnalysisOfEntry(c, order) ==
    IF Truthy(c.name)
    THEN [AnalyzeContract(c.algopy_code, c.arc32_json, c.solidity_code, order)
             EXCEPT !.contract_name = c.name.s]
    ELSE AnalyzeContract(c.algopy_code, c.arc32_json, c.solidity_code, order)

\* C28: analyze_multi_contract returns one analysis per entry, in input order;
\* the one of entry k is the result of analyze_contract on the source,
\* interface specification and original source of entry k, with contract_name
\* replaced by the name of the entry when that name is not empty, whatever the
\* other entries are and whether or not their analyses are degraded
C28_OneAnalysisPerEntry ==
    MultiReturned =>
        /\ Len(multi_result[1].contracts) = Len(contracts)
        /\ \A k \in 1..Len(contracts) :
              \E order \in Orders(StateVarNamesOf(contracts[k].algopy_code)) :
                  multi_result[1].contracts[k] = AnalysisOfEntry(contracts[k], order)

\* a list with an entry whose source does not parse, under the name Vault,
\* beside an entry analysed without error and an entry without name
C28_Witness ==
    /\ MultiReturned
    /\ Len(contracts) = 3
    /\ \E k \in 1..3 :
          /\ multi_result[1].contracts[k].errors # <<>>
          /\ multi_result[1].contracts[k].contract_name = t_Vault
    /\ \E k \in 1..3 :
          /\ multi_result[1].contracts[k].errors = <<>>
          /\ multi_result[1].contracts[k].methods # <<>>
          /\ Truthy(contracts[k].name)
    /\ \E k \in 1..3 :
          /\ ~Truthy(contracts[k].name)
          /\ multi_result[1].contracts[k].contract_name = t_Counter

\* ------------------------------------------------------------------ parameter-name pass

\* the methods of analyses[a] that issue an application call and take a
\* parameter whose lower-cased name holds a variant of the name of contracts[b]
ParamPair(a, b) == a # b /\ ParamCallers(analyses[a], contract_names[b]) # <<>>

\* the source of contracts[a], lower-cased
LowerSource(a) == Lower(SourceText(contracts[a].algopy_code))

\* the first member of analyses[a] that issues an application call
FirstCaller(a) == AppCallers(analyses[a].methods \o analyses[a].subroutines)[1].name

\* C29 as stated: whenever a method of A that issues an application call has
\* a parameter whose name holds a variant of B's name, the variant occurs in
\* A's lower-cased source, the pair is matched by the literal-reference or the
\* naming-convention pass, and via_method is the first member of A that issues
\* an application call
C29_ParamPassAsStated ==
    MultiReturned /\ DistinctNames(contract_names) =>
        \A a, b \in 1..Len(contracts) :
            ParamPair(a, b) =>
                /\ \/ Contains(SourceText(contracts[a].algopy_code), contract_names[b])
                   \/ MatchingVariants(LowerSource(a), contract_names[b]) # {}
                /\ \A k \in EdgesBetween(contract_names[a], contract_names[b]) :
                      multi_result[1].inter_contract_edges[k].via_method
                          = PyStr(FirstCaller(a))

\* every parameter of the pair whose name holds a variant is written in the
\* source as the parser stores it
WrittenAsStored(a, b) ==
    \A m \in Range(ParamCallers(analyses[a], contract_names[b])) :
        \A p \in Range(m.params) :
            (\E variant \in NameVariants(contract_names[b]) :
                Contains(Lower(p.name), variant))
                => Contains(LowerSource(a), Lower(p.name))

\* C29: when a method of A that issues an application call has a parameter
\* whose name holds a variant of B's name and is written in the source as the
\* parser stores it, the pair gets one edge, from the literal-reference pass
\* (without via_method) or from the naming-convention pass (via a caller that
\* accesses a matching state variable, else via the first caller), never from
\* the parameter-name pass; that pass gives the edge, via the first method
\* owning such a parameter, only when the source holds no variant
C29_ParamPass ==
    MultiReturned /\ DistinctNames(contract_names) =>
        \A a, b \in 1..Len(contracts) :
            ParamPair(a, b) =>
                /\ Cardinality(EdgesBetween(contract_names[a], contract_names[b])) = 1
                /\ \A k \in EdgesBetween(contract_names[a], contract_names[b]) :
                      LET e == multi_result[1].inter_contract_edges[k]
                      IN  IF Contains(SourceText(contracts[a].algopy_code), contract_names[b])
                          THEN e.via_method = PyNone
                          ELSE IF MatchingVariants(LowerSource(a), contract_names[b]) # {}
                          THEN \E variant \in MatchingVariants(LowerSource(a),
                                                               contract_names[b]) :
                                   e = ConventionEdge(analyses[a], contract_names[b], variant)
                          ELSE /\ ~WrittenAsStored(a, b)
                               /\ e = ParamEdge(analyses[a], contract_names[b])
                /\ WrittenAsStored(a, b) =>
                      \/ Contains(SourceText(contracts[a].algopy_code), contract_names[b])
                      \/ MatchingVariants(LowerSource(a), contract_names[b]) # {}

\* the second caller owns the parameter token_id, written as stored, and the
\* edge names the first caller
C29_Witness ==
    /\ MultiReturned
    /\ DistinctNames(contract_names)
    /\ \E a, b \in 1..Len(contracts) :
          /\ ParamPair(a, b)
          /\ WrittenAsStored(a, b)
          /\ ParamCallers(analyses[a], contract_names[b])[1].name # FirstCaller(a)
          /\ \E k \in EdgesBetween(contract_names[a], contract_names[b]) :
                multi_result[1].inter_contract_edges[k].via_method = PyStr(FirstCaller(a))

\* ------------------------------------------------------------------ readonly

\* a marker of node carries readonly=True or read_only=True, the literal
LiteralReadonly(node) ==
    \E d \in 1..Len(node.decorator_list) :
        \E k \in 1..Len(node.decorator_list[d].keywords) :
            /\ node.decorator_list[d].keywords[k][1] \in {t_readonly, t_read_only}
            /\ node.decorator_list[d].keywords[k][2].literal
            /\ node.decorator_list[d].keywords[k][2].val = PyBool(TRUE)

\* C30: an entry point is reported with is_readonly true, and so left out of
\* the warnings about missing guards, only if a marker carries the literal
\* readonly=True or read_only=True; a keyword whose value is a non-literal
\* expression never makes the member readonly
C30_ReadonlyOnlyLiteralTrue ==
    Returned /\ result[1].errors = <<>> =>
        \A n \in 1..Len(MemberNodes(contract_cls[1])) :
            LET node == MemberNodes(contract_cls[1])[n]
            IN  \A k \in 1..Len(result[1].methods) :
                    /\ result[1].methods[k].name = node.name
                    /\ ~LiteralReadonly(node)
                    => /\ ~Truthy(result[1].methods[k].is_readonly)
                       /\ result[1].methods[k].guards_count = 0
                             => node.name \in Warned(result[1])

====
